---- MODULE Spec2Model ----
(***************************************************************************)
(* A model of ubuntu-archive-tools/kernel_series.py: the KernelSeries      *)
(* document wrapper and its Series / Source / Snap / Routing views.        *)
(*                                                                         *)
(* Representation of Python values                                         *)
(*   bool   -> BOOLEAN            str  -> a string                         *)
(*   list   -> a sequence         dict -> a function with a finite domain  *)
(*   a dict whose iteration order the code depends on (the document, a     *)
(*   `sources` mapping) -> a sequence of <<key, value>> pairs, in order    *)
(*   None in a string position -> the string None                          *)
(*   a field that admits several Python types -> a record [t, v] whose t   *)
(*   names the type ("none", "bool", "str", "list", "dict", "ref")         *)
(*   a null series / source / snap body behaves as the empty dict in       *)
(*   every place the code reads it (`if not x`, `data if data else {}`),   *)
(*   and is modelled by the empty dict.                                    *)
(***************************************************************************)
EXTENDS Integers, Sequences, FiniteSets, TLC

VARIABLES
    yaml_data,            \* the document as yaml.safe_load returned it
    _data,                \* KernelSeries._data
    _defaults_series,     \* KernelSeries._defaults_series
    _development_series,  \* KernelSeries._development_series
    _codename_to_series,  \* KernelSeries._codename_to_series
    snap_data,            \* KernelSnapEntry._data of the snap under construction
    pc,                   \* position of the caller
    call,                 \* the last operation called, with its arguments
    result,               \* what that operation returned or raised
    _data_txt,            \* KernelSeries._data_txt: url -> fetched text
    fetched,              \* urlopen: how often each url was fetched
    access,               \* QATracker.access
    tracker,              \* the records the remote QA tracker holds
    rpc,                  \* the remote calls made by the last operation
    held,                 \* the QATrackerResult object the client holds
    bug,                  \* the Launchpad bug: title, tasks, tags, messages
    callbacks,            \* the callbacks process_sru_bug has invoked
    configfile,           \* whether ~/.isotracker.conf exists
    config,               \* what that file holds: section -> option -> value
    target,               \* ISOTracker.target
    tracker_products,     \* ISOTracker.tracker_products
    tracker_milestones,   \* ISOTracker.tracker_milestones
    stdout                \* the lines printed so far

\* the state of the url loader
loader_vars == <<_data_txt, fetched>>

\* the state of the QA tracker client and its server
qa_vars == <<access, tracker, rpc, held>>

\* the state of Launchpad and of the workflow callbacks
lp_vars == <<bug, callbacks>>

\* the state of the ISO tracker facade and of its configuration file
iso_vars == <<configfile, config, target, tracker_products, tracker_milestones,
              stdout>>

vars == <<yaml_data, _data, _defaults_series, _development_series,
          _codename_to_series, snap_data, pc, call, result,
          loader_vars, qa_vars, lp_vars, iso_vars>>

ks_vars == <<_data, _defaults_series, _development_series, _codename_to_series>>

(***************************************************************************)
(* Python values                                                           *)
(***************************************************************************)
None == "None"

EmptyDict == <<>>

\* truthiness of a str-or-None argument
Truthy(x) == x # None /\ x # ""

\* dict.get(key, default)
Get(d, key, default) == IF key \in DOMAIN d THEN d[key] ELSE default

\* a copy of d with other's items written over it: d.update(other)
Update(d, other) ==
    [k \in DOMAIN d \cup DOMAIN other |->
        IF k \in DOMAIN other THEN other[k] ELSE d[k]]

\* del d[key]
DelKey(d, key) == [k \in DOMAIN d \ {key} |-> d[k]]

\* d[key] = value
SetKey(d, key, value) == Update(d, key :> value)

(***************************************************************************)
(* Insertion-ordered dicts: sequences of <<key, value>>                    *)
(***************************************************************************)
OKeys(od) == {od[i][1] : i \in DOMAIN od}

OIndex(od, key) == CHOOSE i \in DOMAIN od : od[i][1] = key

OGet(od, key) == od[OIndex(od, key)][2]

ODel(od, key) == SelectSeq(od, LAMBDA item : item[1] # key)

OSet(od, key, value) ==
    IF key \in OKeys(od)
    THEN [od EXCEPT ![OIndex(od, key)] = <<key, value>>]
    ELSE Append(od, <<key, value>>)

(***************************************************************************)
(* Outcomes of a call                                                      *)
(***************************************************************************)
Raise(exc) == [kind |-> "raise", exc |-> exc]

ReturnNone == [kind |-> "none"]

Return(kind, value) == [kind |-> kind, value |-> value]

Raised(r) == r.kind = "raise"

(***************************************************************************)
(* KernelSeries.__init__, lines 575-589: one pass over the document in its *)
(* own order, then the defaults block is pulled out of the document.       *)
(***************************************************************************)
RECURSIVE ScanDevelopment(_, _, _)
\* the value of _development_series after items i.. of the loop, given dev
ScanDevelopment(od, i, dev) ==
    IF i > Len(od) THEN dev
    ELSE LET series_key == od[i][1]
             series == od[i][2]
         IN IF DOMAIN series = {} THEN ScanDevelopment(od, i + 1, dev)
            ELSE IF Get(series, "development", FALSE)
                 THEN ScanDevelopment(od, i + 1, series_key)
                 ELSE ScanDevelopment(od, i + 1, dev)

RECURSIVE ScanCodenames(_, _, _)
\* the value of _codename_to_series after items i.. of the loop, given map
ScanCodenames(od, i, map) ==
    IF i > Len(od) THEN map
    ELSE LET series_key == od[i][1]
             series == od[i][2]
         IN IF DOMAIN series = {} THEN ScanCodenames(od, i + 1, map)
            ELSE IF "codename" \in DOMAIN series
                 THEN ScanCodenames(od, i + 1,
                                    SetKey(map, series["codename"], series_key))
                 ELSE ScanCodenames(od, i + 1, map)

DefaultsOf(od) ==
    IF "defaults" \in OKeys(od) THEN OGet(od, "defaults") ELSE EmptyDict

KernelSeries__init__ ==
    /\ pc = "load"
    /\ _development_series' = ScanDevelopment(yaml_data, 1, None)
    /\ _codename_to_series' = ScanCodenames(yaml_data, 1, EmptyDict)
    /\ _defaults_series' = DefaultsOf(yaml_data)
    /\ _data' = ODel(yaml_data, "defaults")
    /\ pc' = "ready"
    /\ call' = [op |-> "none"]
    /\ result' = ReturnNone
    /\ UNCHANGED <<yaml_data, snap_data, loader_vars, iso_vars, qa_vars, lp_vars>>

(***************************************************************************)
(* KernelSeriesEntry                                                       *)
(***************************************************************************)
\* KernelSeriesEntry with the two updates in the other order
KernelSeriesEntry_DefaultsLast(name, data, defaults) ==
    [name |-> name, data |-> Update(Update(EmptyDict, data), defaults)]

\* __init__: defaults first, the series' own data over them
KernelSeriesEntry(name, data, defaults) ==
    [name |-> name, data |-> Update(Update(EmptyDict, defaults), data)]

Series_codename(series) == Get(series.data, "codename", None)

Series_development(series) == Get(series.data, "development", FALSE)

Series_supported(series) == Get(series.data, "supported", FALSE)

Series_lts(series) == Get(series.data, "lts", FALSE)

Series_esm(series) == Get(series.data, "esm", FALSE)

\* the routing table or None: [t |-> "dict", v |-> table] or [t |-> "none"]
Series_routing_table(series) ==
    IF "routing-table" \in DOMAIN series.data
    THEN [t |-> "dict", v |-> series.data["routing-table"]]
    ELSE [t |-> "none"]

KernelSourceEntry(series, name, data) ==
    [series |-> series, name |-> name, data |-> data]

\* the `sources` mapping of a series view; a missing one reads as empty
SourcesOf(series) == Get(series.data, "sources", <<>>)

Series_sources(series) ==
    LET sources == SourcesOf(series)
    IN [i \in DOMAIN sources |->
            KernelSourceEntry(series, sources[i][1], sources[i][2])]

\* lookup_source without the check of line 538
Series_lookup_source_Unchecked(series, source_key) ==
    LET sources == SourcesOf(series)
    IN IF source_key \notin OKeys(sources)
       THEN Raise("KeyError")
       ELSE Return("Source",
                   KernelSourceEntry(series, source_key, OGet(sources, source_key)))

Series_lookup_source(series, source_key) ==
    LET sources == SourcesOf(series)
    IN IF Len(sources) = 0 \/ source_key \notin OKeys(sources)
       THEN ReturnNone
       ELSE Return("Source",
                   KernelSourceEntry(series, source_key, OGet(sources, source_key)))

(***************************************************************************)
(* KernelSeries.series and KernelSeries.lookup_series                      *)
(***************************************************************************)
KernelSeries_series ==
    [i \in DOMAIN _data |->
        KernelSeriesEntry(_data[i][1], _data[i][2], _defaults_series)]

\* lines 608-611: the second `if`, which tests the key the first one may
\* have set
ResolveDevelopment(series, development) ==
    IF ~Truthy(series) /\ development
    THEN IF ~Truthy(_development_series)
         THEN [early |-> TRUE]
         ELSE [early |-> FALSE, series |-> _development_series]
    ELSE [early |-> FALSE, series |-> series]

\* the key the selectors resolve to, or an early return, lines 604-611:
\* two `if` statements in sequence
ResolveSeries(series, codename, development) ==
    IF ~Truthy(series) /\ Truthy(codename)
    THEN IF codename \notin DOMAIN _codename_to_series
         THEN [early |-> TRUE]
         ELSE ResolveDevelopment(_codename_to_series[codename], development)
    ELSE ResolveDevelopment(series, development)

\* lookup_series without the check of line 602
lookup_series_Unchecked(series, codename, development) ==
    LET r == ResolveSeries(series, codename, development)
    IN IF r.early THEN ReturnNone
       ELSE IF Truthy(r.series) /\ r.series \notin OKeys(_data)
       THEN ReturnNone
       ELSE IF r.series \notin OKeys(_data)
       THEN Raise("KeyError")
       ELSE Return("Series",
                   KernelSeriesEntry(r.series, OGet(_data, r.series),
                                     _defaults_series))

lookup_series(series, codename, development) ==
    IF ~Truthy(series) /\ ~Truthy(codename) /\ ~development
    THEN Raise("ValueError")
    ELSE LET r == ResolveSeries(series, codename, development)
         IN IF r.early THEN ReturnNone
            ELSE IF Truthy(r.series) /\ r.series \notin OKeys(_data)
            THEN ReturnNone
            ELSE IF r.series \notin OKeys(_data)
            THEN Raise("KeyError")
            ELSE Return("Series",
                        KernelSeriesEntry(r.series, OGet(_data, r.series),
                                          _defaults_series))

(***************************************************************************)
(* KernelSourceEntry: flags, references and versions                       *)
(***************************************************************************)
\* Source.development falling back to False instead of the series' value
Source_development_Own(source) == Get(source.data, "development", FALSE)

Source_development(source) ==
    Get(source.data, "development", Series_development(source.series))

Source_supported(source) ==
    Get(source.data, "supported", Series_supported(source.series))

\* the source a [series_key, source_key] reference names, lines 357-362 and
\* 403-408: None.lookup_source when the series is unknown
FollowReference(ref) ==
    LET series == lookup_series(ref[1], None, FALSE)
    IN IF Raised(series) THEN series
       ELSE IF series.kind = "none" THEN Raise("AttributeError")
       ELSE Series_lookup_source(series.value, ref[2])

Source_derived_from(source) ==
    IF "derived-from" \notin DOMAIN source.data THEN ReturnNone
    ELSE FollowReference(source.data["derived-from"])

\* `copy-forward` is [t |-> "bool", v |-> b] or [t |-> "ref", v |-> <<series, source>>]
Source_copy_forward(source) ==
    IF "copy-forward" \notin DOMAIN source.data THEN ReturnNone
    ELSE LET cf == source.data["copy-forward"]
         IN IF cf.t = "bool" /\ cf.v = FALSE THEN ReturnNone
            ELSE IF cf.t = "bool"
            THEN LET derived_from == Source_derived_from(source)
                 IN IF Raised(derived_from) THEN derived_from
                    ELSE IF derived_from.kind = "none" THEN Return("bool", TRUE)
                    ELSE derived_from
            ELSE FollowReference(cf.v)

SourceId(source) == <<source.series.name, source.name>>

RECURSIVE VersionsFrom(_, _)
\* Source.versions, lines 282-295. `seen` holds the sources already entered
\* on this chain: entering one again repeats the same calls without end,
\* which the interpreter ends with RecursionError.
VersionsFrom(source, seen) ==
    IF "versions" \in DOMAIN source.data
    THEN Return("list", source.data["versions"])
    ELSE IF SourceId(source) \in seen THEN Raise("RecursionError")
    ELSE LET derived_from == Source_derived_from(source)
             copy_forward == Source_copy_forward(source)
             entered == seen \cup {SourceId(source)}
         IN IF Raised(derived_from) THEN derived_from
            ELSE IF derived_from.kind # "none"
            THEN VersionsFrom(derived_from.value, entered)
            ELSE IF Raised(copy_forward) THEN copy_forward
            ELSE IF copy_forward.kind = "bool" THEN Raise("AttributeError")
            ELSE IF copy_forward.kind # "none"
            THEN VersionsFrom(copy_forward.value, entered)
            ELSE ReturnNone

\* versions that notices a source entered again and gives None for it
Source_versions_Detecting(source) ==
    IF VersionsFrom(source, {}) = Raise("RecursionError") THEN ReturnNone
    ELSE VersionsFrom(source, {})

Source_versions(source) == VersionsFrom(source, {})

\* Source.version, lines 298-302: the last of the versions, None when there
\* are none
Source_version(source) ==
    LET versions == Source_versions(source)
    IN IF Raised(versions) THEN versions
       ELSE IF versions.kind = "none" THEN ReturnNone
       ELSE IF Len(versions.value) = 0 THEN ReturnNone
       ELSE Return("str", versions.value[Len(versions.value)])

(***************************************************************************)
(* KernelSourceEntry: packages                                             *)
(***************************************************************************)
KernelPackageEntry(source, name, data) ==
    [source |-> source, name |-> name, data |-> data]

Source_lookup_package(source, package_key) ==
    LET packages == Get(source.data, "packages", EmptyDict)
    IN IF DOMAIN packages = {} \/ package_key \notin DOMAIN packages
       THEN ReturnNone
       ELSE Return("Package",
                   KernelPackageEntry(source, package_key, packages[package_key]))

(***************************************************************************)
(* KernelSnapEntry.__init__, lines 109-143.  The constructor works on the  *)
(* dict it is given (a fresh one when that is empty), so what it returns   *)
(* here is that dict after each step.                                      *)
(*   `promote-to` is [t |-> "str", v |-> risk], [t |-> "list", v |-> seq]  *)
(*   or [t |-> "none"]; the other fields have one type each.               *)
(***************************************************************************)
Ladder == <<"edge", "beta", "candidate", "stable">>

\* ConvertArches that ignores the track
ConvertArches_Latest(data) ==
    IF "publish-to" \notin DOMAIN data /\ "arches" \in DOMAIN data
    THEN LET arches == data["arches"]
             publish_to == [arch \in {arches[i] : i \in DOMAIN arches} |->
                                <<"latest">>]
         IN SetKey(data, "publish-to", publish_to)
    ELSE data

\* lines 116-121
ConvertArches(data) ==
    IF "publish-to" \notin DOMAIN data /\ "arches" \in DOMAIN data
    THEN LET arches == data["arches"]
             publish_to == [arch \in {arches[i] : i \in DOMAIN arches} |->
                                <<Get(data, "track", "latest")>>]
         IN SetKey(data, "publish-to", publish_to)
    ELSE data

\* lines 124-128
ConvertStable(data) ==
    IF "promote-to" \notin DOMAIN data /\ "stable" \in DOMAIN data
    THEN IF data["stable"] = TRUE
         THEN SetKey(data, "promote-to", [t |-> "str", v |-> "stable"])
         ELSE SetKey(data, "promote-to", [t |-> "str", v |-> "candidate"])
    ELSE data

\* the loop without its break
ExpandFrom_NoBreak(promote_to, i, expand_promote_to) ==
    SubSeq(Ladder, i, Len(Ladder))

RECURSIVE ExpandFrom(_, _, _)
\* the loop of lines 133-136 from ladder position i on
ExpandFrom(promote_to, i, expand_promote_to) ==
    IF i > Len(Ladder) THEN expand_promote_to
    ELSE LET next == Append(expand_promote_to, Ladder[i])
         IN IF Ladder[i] = promote_to THEN next
            ELSE ExpandFrom(promote_to, i + 1, next)

\* lines 130-137
ExpandPromoteTo(data) ==
    LET promote_to == Get(data, "promote-to", [t |-> "str", v |-> "edge"])
    IN IF promote_to.t = "str"
       THEN SetKey(data, "promote-to",
                   [t |-> "list", v |-> ExpandFrom(promote_to.v, 1, <<>>)])
       ELSE data

InSeq(x, seq) == \E i \in DOMAIN seq : seq[i] = x

\* EnsureStable that looks for the wrong risk
EnsureStable_Candidate(data) ==
    IF "promote-to" \in DOMAIN data /\ "stable" \notin DOMAIN data
    THEN IF data["promote-to"].t = "none"
         THEN [raised |-> TRUE, data |-> data]
         ELSE [raised |-> FALSE,
               data |-> SetKey(data, "stable",
                               InSeq("candidate", data["promote-to"].v))]
    ELSE [raised |-> FALSE, data |-> data]

\* lines 139-143: `'stable' in None` is a TypeError
EnsureStable(data) ==
    IF "promote-to" \in DOMAIN data /\ "stable" \notin DOMAIN data
    THEN IF data["promote-to"].t = "none"
         THEN [raised |-> TRUE, data |-> data]
         ELSE [raised |-> FALSE,
               data |-> SetKey(data, "stable", InSeq("stable", data["promote-to"].v))]
    ELSE [raised |-> FALSE, data |-> data]

\* the snap's dict when __init__ returns or raises
SnapInit(data) == EnsureStable(ExpandPromoteTo(ConvertStable(ConvertArches(data))))

KernelSnapEntry(source, name, data) ==
    LET done == SnapInit(data)
    IN IF done.raised THEN Raise("TypeError")
       ELSE Return("Snap", [source |-> source, name |-> name, data |-> done.data])

Snap_stable(snap) == Get(snap.data, "stable", FALSE)

Snap_publish_to(snap) ==
    IF "publish-to" \in DOMAIN snap.data
    THEN Return("dict", snap.data["publish-to"]) ELSE ReturnNone

\* the promote-to list, or None
Snap_promote_to(snap) == Get(snap.data, "promote-to", [t |-> "none"])

\* promote_to_risk, line 210: `risk in None` is a TypeError
Snap_promote_to_risk(snap, risk) ==
    LET promote_to == Get(snap.data, "promote-to", [t |-> "list", v |-> <<>>])
    IN IF promote_to.t = "none" THEN Raise("TypeError")
       ELSE Return("bool", InSeq(risk, promote_to.v))

\* KernelSourceEntry.lookup_snap(snap_key), lines 346-350; the snaps of a
\* source are kept in the order the document lists them
Source_lookup_snap(source, snap_key) ==
    LET snaps == Get(source.data, "snaps", EmptyDict)
    IN IF Len(snaps) = 0 \/ snap_key \notin OKeys(snaps)
       THEN ReturnNone
       ELSE KernelSnapEntry(source, snap_key, OGet(snaps, snap_key))

RECURSIVE SnapsFrom(_, _, _, _)
\* line 342: the view of snap i was built; a raise ends the loop, a view
\* joins the result and the loop goes on
SnapBuilt(source, snaps, i, built, entry) ==
    IF Raised(entry) THEN entry
    ELSE SnapsFrom(source, snaps, i + 1, Append(built, entry.value))

\* lines 341-342 from snap i on
SnapsFrom(source, snaps, i, built) ==
    IF i > Len(snaps) THEN Return("list", built)
    ELSE SnapBuilt(source, snaps, i, built,
                   KernelSnapEntry(source, snaps[i][1], snaps[i][2]))

\* KernelSourceEntry.snaps, lines 336-344
Source_snaps(source) ==
    SnapsFrom(source, Get(source.data, "snaps", EmptyDict), 1, <<>>)

(***************************************************************************)
(* KernelRoutingEntry.__init__, lines 13-34, and Source.routing            *)
(*   a source's `routing` is [t |-> "str", v |-> alias],                   *)
(*   [t |-> "dict", v |-> destinations] or [t |-> "none"];                 *)
(*   a destination is [t |-> "list", v |-> pockets] or [t |-> "none"].     *)
(***************************************************************************)
\* lines 27-29: the destinations left after the None ones are deleted
DropNone(data) ==
    [entry \in {e \in DOMAIN data : data[e].t # "none"} |-> data[entry]]

\* KernelRoutingEntry without the check of line 21
KernelRoutingEntry_Unchecked(source, data) ==
    IF data.t = "str"
    THEN LET table == Series_routing_table(source.series)
         IN IF table.t = "none" THEN Raise("ValueError")
            ELSE IF data.v \notin DOMAIN table.v THEN Raise("KeyError")
            ELSE Return("Routing", [source |-> source, alias |-> TRUE,
                                    name |-> data.v,
                                    data |-> DropNone(table.v[data.v])])
    ELSE Return("Routing", [source |-> source, alias |-> FALSE,
                            name |-> <<Series_codename(source.series), source.name>>,
                            data |-> DropNone(data.v)])

KernelRoutingEntry(source, data) ==
    IF data.t = "str"
    THEN LET table == Series_routing_table(source.series)
         IN IF table.t = "none" THEN Raise("ValueError")
            ELSE IF data.v \notin DOMAIN table.v THEN Raise("ValueError")
            ELSE Return("Routing", [source |-> source, alias |-> TRUE,
                                    name |-> data.v,
                                    data |-> DropNone(table.v[data.v])])
    ELSE Return("Routing", [source |-> source, alias |-> FALSE,
                            name |-> <<Series_codename(source.series), source.name>>,
                            data |-> DropNone(data.v)])

\* lines 416-421: the alias or inline routing the source uses
RoutingData(source) ==
    LET default == IF Series_esm(source.series) THEN "esm"
                   ELSE IF Series_development(source.series) THEN "devel"
                   ELSE "default"
    IN Get(source.data, "routing", [t |-> "str", v |-> default])

Source_routing(source) ==
    LET data == RoutingData(source)
    IN IF data.t = "none" THEN ReturnNone
       ELSE KernelRoutingEntry(source, data)

(***************************************************************************)
(* Views share their nested dicts with the document: a series view holds   *)
(* a shallow copy of defaults and series, so a field of the view is the    *)
(* very object stored in the series (when the series has the key) or in    *)
(* the defaults block.  What a constructor deletes from or adds to such an *)
(* object is therefore written to the document.                            *)
(***************************************************************************)
\* _data and _defaults_series once `field` of the series view is `value`
PutSeriesField(series_key, field, value) ==
    IF field \in DOMAIN OGet(_data, series_key)
    THEN [data |-> OSet(_data, series_key,
                        SetKey(OGet(_data, series_key), field, value)),
          defaults |-> _defaults_series]
    ELSE [data |-> _data,
          defaults |-> SetKey(_defaults_series, field, value)]

\* _data and _defaults_series once the dict of a source is `source_data`
PutSource(source, source_data) ==
    PutSeriesField(source.series.name, "sources",
                   OSet(SourcesOf(source.series), source.name, source_data))

Unwritten == [data |-> _data, defaults |-> _defaults_series]

\* the document after Source.routing on `source`
RoutingWritten(source) ==
    LET data == RoutingData(source)
        table == Series_routing_table(source.series)
    IN IF data.t = "none" THEN Unwritten
       ELSE IF data.t = "dict"
       THEN PutSource(source, SetKey(source.data, "routing",
                                     [t |-> "dict", v |-> DropNone(data.v)]))
       ELSE IF table.t = "none" THEN Unwritten
       ELSE IF data.v \notin DOMAIN table.v THEN Unwritten
       ELSE PutSeriesField(source.series.name, "routing-table",
                           SetKey(table.v, data.v, DropNone(table.v[data.v])))

\* the document after Source.lookup_snap(snap_key) on `source`: an empty
\* snap body is replaced by a fresh dict, any other is normalised in place
SnapWritten(source, snap_key) ==
    LET snaps == Get(source.data, "snaps", EmptyDict)
    IN IF Len(snaps) = 0 \/ snap_key \notin OKeys(snaps) THEN Unwritten
       ELSE IF DOMAIN OGet(snaps, snap_key) = {} THEN Unwritten
       ELSE PutSource(source,
                      SetKey(source.data, "snaps",
                             OSet(snaps, snap_key,
                                  SnapInit(OGet(snaps, snap_key)).data)))

RECURSIVE SnapsNormalised(_, _)
\* the snaps mapping after the loop of lines 341-342 from snap i on: each
\* body that is not empty is normalised in place, up to and including the
\* first whose constructor raises
SnapsNormalised(snaps, i) ==
    IF i > Len(snaps) THEN snaps
    ELSE IF DOMAIN snaps[i][2] = {} THEN SnapsNormalised(snaps, i + 1)
    ELSE IF SnapInit(snaps[i][2]).raised
    THEN [snaps EXCEPT ![i][2] = SnapInit(snaps[i][2]).data]
    ELSE SnapsNormalised([snaps EXCEPT ![i][2] = SnapInit(snaps[i][2]).data],
                         i + 1)

\* the document after Source.snaps on `source`
SnapsWritten(source) ==
    IF Len(Get(source.data, "snaps", EmptyDict)) = 0 THEN Unwritten
    ELSE PutSource(source,
                   SetKey(source.data, "snaps",
                          SnapsNormalised(source.data["snaps"], 1)))

(***************************************************************************)
(* The caller: one KernelSeries, then any sequence of accessor calls       *)
(***************************************************************************)
\* arguments the caller passes that name nothing in any document
UnknownKey == "unknown"

SeriesArgs == OKeys(_data) \cup {UnknownKey, "defaults"}

CodenameArgs == DOMAIN _codename_to_series \cup {UnknownKey}

\* the sources reachable from the series views, as <<series view, source key>>
SourceArgs(series) == OKeys(SourcesOf(series)) \cup {UnknownKey}

Called(c, r) ==
    /\ pc = "ready"
    /\ pc' = "returned"
    /\ call' = c
    /\ result' = r

Reads == UNCHANGED <<yaml_data, ks_vars, snap_data, loader_vars, iso_vars, qa_vars,
                    lp_vars>>

LookupSeries ==
    \E series \in SeriesArgs \cup {None}, codename \in CodenameArgs \cup {None},
       development \in BOOLEAN :
        /\ Called([op |-> "lookup_series", series |-> series,
                   codename |-> codename, development |-> development],
                  lookup_series(series, codename, development))
        /\ Reads

Series ==
    /\ Called([op |-> "series"], Return("list", KernelSeries_series))
    /\ Reads

LookupSource ==
    \E i \in DOMAIN KernelSeries_series :
        LET series == KernelSeries_series[i]
        IN \E source_key \in SourceArgs(series) :
            /\ Called([op |-> "lookup_source", series |-> series.name,
                       source_key |-> source_key],
                      Series_lookup_source(series, source_key))
            /\ Reads

\* every source of every series view: series.sources
AllSources ==
    UNION {{Series_sources(KernelSeries_series[i])[j] :
                j \in DOMAIN Series_sources(KernelSeries_series[i])} :
           i \in DOMAIN KernelSeries_series}

SourceFlags ==
    \E source \in AllSources :
        /\ Called([op |-> "flags", series |-> source.series.name,
                   source |-> source.name],
                  Return("flags", [development |-> Source_development(source),
                                   supported |-> Source_supported(source)]))
        /\ Reads

Versions ==
    \E source \in AllSources :
        /\ Called([op |-> "versions", series |-> source.series.name,
                   source |-> source.name],
                  Source_versions(source))
        /\ Reads

\* source.version
Version ==
    \E source \in AllSources :
        /\ Called([op |-> "version", series |-> source.series.name,
                   source |-> source.name],
                  Source_version(source))
        /\ Reads

\* source.derived_from
DerivedFrom ==
    \E source \in AllSources :
        /\ Called([op |-> "derived_from", series |-> source.series.name,
                   source |-> source.name],
                  Source_derived_from(source))
        /\ Reads

\* source.copy_forward
CopyForward ==
    \E source \in AllSources :
        /\ Called([op |-> "copy_forward", series |-> source.series.name,
                   source |-> source.name],
                  Source_copy_forward(source))
        /\ Reads

\* lookup_series(development=True).sources[0].versions
DevelopmentVersions ==
    LET series == lookup_series(None, None, TRUE)
    IN /\ series.kind = "Series"
       /\ Len(SourcesOf(series.value)) > 0
       /\ Called([op |-> "development_versions", series |-> series.value.name,
                  source |-> Series_sources(series.value)[1].name],
                 Source_versions(Series_sources(series.value)[1]))
       /\ Reads

LookupPackage ==
    \E source \in AllSources :
        \E package_key \in DOMAIN Get(source.data, "packages", EmptyDict)
                              \cup {UnknownKey} :
            /\ Called([op |-> "lookup_package", series |-> source.series.name,
                       source |-> source.name, package_key |-> package_key],
                      Source_lookup_package(source, package_key))
            /\ Reads

LookupSnap ==
    \E source \in AllSources :
        \E snap_key \in OKeys(Get(source.data, "snaps", EmptyDict))
                           \cup {UnknownKey} :
            /\ Called([op |-> "lookup_snap", series |-> source.series.name,
                       source |-> source.name, snap_key |-> snap_key],
                      Source_lookup_snap(source, snap_key))
            /\ _data' = SnapWritten(source, snap_key).data
            /\ _defaults_series' = SnapWritten(source, snap_key).defaults
            /\ UNCHANGED <<yaml_data, _development_series, _codename_to_series,
                           snap_data, loader_vars, iso_vars, qa_vars, lp_vars>>

\* source.snaps
Snaps ==
    \E source \in AllSources :
        /\ Called([op |-> "snaps", series |-> source.series.name,
                   source |-> source.name],
                  Source_snaps(source))
        /\ \E written \in {SnapsWritten(source)} :
            /\ _data' = written.data
            /\ _defaults_series' = written.defaults
        /\ UNCHANGED <<yaml_data, _development_series, _codename_to_series,
                       snap_data, loader_vars, iso_vars, qa_vars, lp_vars>>

Routing ==
    \E source \in AllSources :
        /\ Called([op |-> "routing", series |-> source.series.name,
                   source |-> source.name],
                  Source_routing(source))
        /\ _data' = RoutingWritten(source).data
        /\ _defaults_series' = RoutingWritten(source).defaults
        /\ UNCHANGED <<yaml_data, _development_series, _codename_to_series,
                       snap_data, loader_vars, iso_vars, qa_vars, lp_vars>>

\* the caller goes on to its next call
NextCall ==
    /\ pc = "returned"
    /\ pc' = "ready"
    /\ call' = [op |-> "none"]
    /\ result' = ReturnNone
    /\ Reads

\* KernelSnapEntry(ks, source, name, data) on the dict snap_data; every
\* later access builds the view again over the same dict
KernelSnapEntry__init__ ==
    /\ pc \in {"snap", "built"}
    /\ pc' = "built"
    /\ call' = [op |-> "KernelSnapEntry", data |-> snap_data]
    /\ result' = KernelSnapEntry(None, "pc-kernel", snap_data)
    /\ snap_data' = SnapInit(snap_data).data
    /\ UNCHANGED <<yaml_data, ks_vars, loader_vars, iso_vars, qa_vars, lp_vars>>

\* a caller that looks series, sources, packages and snaps up
Next ==
    \/ KernelSeries__init__
    \/ LookupSeries
    \/ Series
    \/ LookupSource
    \/ SourceFlags
    \/ LookupPackage
    \/ LookupSnap
    \/ Snaps
    \/ NextCall

\* a caller that reads versions
NextVersions ==
    \/ KernelSeries__init__
    \/ Versions
    \/ Version
    \/ DerivedFrom
    \/ CopyForward
    \/ DevelopmentVersions
    \/ NextCall

\* a caller that reads routing
NextRouting ==
    \/ KernelSeries__init__
    \/ Routing
    \/ NextCall

\* a caller that builds a snap view, and builds it again
NextSnap == KernelSnapEntry__init__

\* nothing fetched, no tracker connected, no bug loaded
Unused ==
    /\ _data_txt = EmptyDict
    /\ fetched = EmptyDict
    /\ access = None
    /\ tracker = EmptyDict
    /\ rpc = <<>>
    /\ held = EmptyDict
    /\ configfile = None
    /\ config = EmptyDict
    /\ target = None
    /\ stdout = <<>>
    /\ tracker_products = None
    /\ tracker_milestones = None
    /\ bug = EmptyDict
    /\ callbacks = <<>>

\* a KernelSeries about to be built from the parsed document `doc`
Loaded(doc) ==
    /\ Unused
    /\ yaml_data = doc
    /\ _data = doc
    /\ _defaults_series = EmptyDict
    /\ _development_series = None
    /\ _codename_to_series = EmptyDict
    /\ snap_data = EmptyDict
    /\ pc = "load"
    /\ call = [op |-> "none"]
    /\ result = ReturnNone

(***************************************************************************)
(* Documents.  Every family below is a set of documents yaml.safe_load can *)
(* return; a specification starts from one family.                         *)
(***************************************************************************)
\* the dicts that hold `key` with one of `values`, or do not hold it
Opt(key, values) == {EmptyDict} \cup {key :> v : v \in values}

SeriesNames == <<"16.04", "18.04", "20.04", "22.04">>

Codenames == <<"xenial", "bionic", "focal", "jammy">>

\* the number of series of a document
MaxSeries == 2

\* a `defaults` block: a codename and flags
DefaultsBodies ==
    {c @@ d @@ s : c \in Opt("codename", {"devel"}),
                   d \in Opt("development", {TRUE}),
                   s \in Opt("supported", {TRUE})}

\* the first series of a document: codename and both flags
FirstSeriesBodies ==
    {c @@ d @@ s : c \in Opt("codename", {Codenames[1]}),
                   d \in Opt("development", BOOLEAN),
                   s \in Opt("supported", {FALSE})}

\* a further series: its codename, or the first one's again, and a flag
OtherSeriesBodies(i) ==
    {c @@ d : c \in Opt("codename", {Codenames[i], Codenames[1]}),
              d \in Opt("development", {TRUE})}

RECURSIVE SeriesItems(_)
\* the documents of n series, without a defaults block
SeriesItems(n) ==
    IF n = 1 THEN {<<<<SeriesNames[1], b>>>> : b \in FirstSeriesBodies}
    ELSE {Append(doc, <<SeriesNames[n], b>>) :
            doc \in SeriesItems(n - 1), b \in OtherSeriesBodies(n)}

\* a document with the defaults block `d` before or after its series
WithDefaults(doc, d) == {<<<<"defaults", d>>>> \o doc, Append(doc, <<"defaults", d>>)}

\* documents of MaxSeries series, with or without a defaults block
SeriesDocuments ==
    SeriesItems(MaxSeries)
        \cup UNION {WithDefaults(doc, d) :
                        doc \in SeriesItems(MaxSeries), d \in DefaultsBodies}

\* what a source may hold: flags, packages, snaps
SourceBodies ==
    {d @@ s : d \in Opt("development", BOOLEAN), s \in Opt("supported", BOOLEAN)}
        \cup { ("packages" :> EmptyDict) @@ ("snaps" :> EmptyDict),
               ("packages" :> ("linux-meta" :> ("type" :> "meta")))
                   @@ ("snaps" :> <<<<"pc-kernel", EmptyDict>>>>),
               "snaps" :> <<<<"pc-kernel", ("arches" :> <<"amd64">>)
                                                @@ ("track" :> "18")>>,
                            <<"pi-kernel", "promote-to" :>
                                                [t |-> "str", v |-> "beta"]>>>>,
               "snaps" :> <<<<"pi-kernel", "stable" :> TRUE>>,
                            <<"pc-kernel", "promote-to" :> [t |-> "none"]>>,
                            <<"core", "arches" :> <<"amd64">>>>>> }

\* a `sources` mapping: missing (no key), empty, or holding sources
SourcesChoices ==
    {EmptyDict, "sources" :> <<>>}
        \cup {"sources" :> <<<<"linux", x>>>> : x \in SourceBodies}
        \cup {"sources" :> <<<<"linux", EmptyDict>>, <<"linux-hwe", x>>>> :
                x \in SourceBodies}

\* documents of one series with sources, with or without a defaults block
SourceDocuments ==
    LET series == {<<<<SeriesNames[1], d @@ s @@ src>>>> :
                        d \in Opt("development", BOOLEAN),
                        s \in Opt("supported", BOOLEAN),
                        src \in SourcesChoices}
    IN series \cup {<<<<"defaults", d @@ s>>>> \o doc :
                        d \in Opt("development", {TRUE}),
                        s \in Opt("supported", BOOLEAN),
                        doc \in series}

Init == \E doc \in SeriesDocuments \cup SourceDocuments : Loaded(doc)

Spec == Init /\ [][Next]_vars

(***************************************************************************)
(* Documents whose sources refer to each other: series 16.04 with linux    *)
(* and linux-hwe, and the development series 18.04 with linux.             *)
(***************************************************************************)
\* the length of an explicit versions list
MaxVersions == 2

\* the versions of a source: opaque entries, oldest first
VersionsList(series_key, source_key) ==
    [i \in 1..MaxVersions |-> <<series_key, source_key, i>>]

Ref(series_key, source_key) == <<series_key, source_key>>

\* references to the three sources, to a source 16.04 does not have and to
\* a series the document does not have
References ==
    {Ref("16.04", "linux"), Ref("18.04", "linux"), Ref("16.04", "linux-hwe"),
     Ref("16.04", "linux-missing"), Ref("14.04", "linux")}

CopyForwards ==
    {[t |-> "bool", v |-> b] : b \in BOOLEAN}
        \cup {[t |-> "ref", v |-> r] :
                r \in {Ref("16.04", "linux-hwe"), Ref("14.04", "linux")}}

DevelopmentLinuxBodies ==
    {v @@ d @@ c : v \in Opt("versions", {VersionsList("18.04", "linux")}),
                   d \in Opt("derived-from", References),
                   c \in Opt("copy-forward", CopyForwards)}

LinuxBodies ==
    {v @@ d @@ c :
        v \in Opt("versions", {VersionsList("16.04", "linux")}),
        d \in Opt("derived-from",
                  {Ref("18.04", "linux"), Ref("16.04", "linux-hwe"),
                   Ref("14.04", "linux")}),
        c \in Opt("copy-forward",
                  {[t |-> "bool", v |-> TRUE],
                   [t |-> "ref", v |-> Ref("16.04", "linux-hwe")]})}

HweBodies ==
    {v @@ d : v \in Opt("versions", {VersionsList("16.04", "linux-hwe"), <<>>}),
              d \in Opt("derived-from",
                        {Ref("16.04", "linux"), Ref("18.04", "linux")})}

VersionsDocuments ==
    {<< <<"16.04", "sources" :> <<<<"linux", a>>, <<"linux-hwe", h>>>>>>,
        <<"18.04", ("development" :> TRUE) @@ ("sources" :> <<<<"linux", b>>>>)>> >> :
        a \in LinuxBodies, h \in HweBodies, b \in DevelopmentLinuxBodies}

InitVersions == \E doc \in VersionsDocuments : Loaded(doc)

SpecVersions == InitVersions /\ [][NextVersions]_vars

(***************************************************************************)
(* Documents with routing: one series with one source, routing tables in   *)
(* the series and in the defaults block.                                   *)
(***************************************************************************)
Pockets(names) == [t |-> "list", v |-> names]

NoPockets == [t |-> "none"]

\* the table entry of an alias, with or without a destination set to null
TableEntry(alias, with_null) ==
    IF with_null
    THEN ("build" :> Pockets(<<"ppa", alias>>)) @@ ("security" :> NoPockets)
    ELSE ("build" :> Pockets(<<"ppa", alias>>))
             @@ ("proposed" :> Pockets(<<"archive">>))

RoutingTable(aliases, with_null) ==
    [alias \in aliases |-> TableEntry(alias, with_null)]

RoutingTables ==
    {RoutingTable(aliases, with_null) :
        aliases \in SUBSET {"default", "devel", "esm", "legacy"},
        with_null \in BOOLEAN}

SourceRoutings ==
    {[t |-> "none"],
     [t |-> "str", v |-> "legacy"], [t |-> "str", v |-> "default"],
     [t |-> "dict", v |-> EmptyDict],
     [t |-> "dict", v |-> ("build" :> Pockets(<<"ppa">>)) @@ ("updates" :> NoPockets)]}

RoutingSeriesBodies ==
    {c @@ d @@ e @@ t @@ ("sources" :> <<<<"linux", r>>>>) :
        c \in {"codename" :> Codenames[1]},
        d \in Opt("development", {TRUE}),
        e \in Opt("esm", {TRUE}),
        t \in Opt("routing-table", RoutingTables),
        r \in Opt("routing", SourceRoutings)}

RoutingDefaults ==
    {RoutingTable({"default", "legacy"}, TRUE),
     RoutingTable({"default", "devel", "esm"}, FALSE)}

RoutingDocuments ==
    {<<<<"16.04", b>>>> : b \in RoutingSeriesBodies}
        \cup {<< <<"defaults", "routing-table" :> t>>, <<"16.04", b>> >> :
                t \in RoutingDefaults, b \in RoutingSeriesBodies}

InitRouting == \E doc \in RoutingDocuments : Loaded(doc)

SpecRouting == InitRouting /\ [][NextRouting]_vars

(***************************************************************************)
(* Snap definitions                                                        *)
(***************************************************************************)
\* the length of an `arches` list
MaxArches == 2

RECURSIVE SeqsUpTo(_, _)
\* the sequences over `values` of length at most n
SeqsUpTo(values, n) ==
    IF n = 0 THEN {<<>>}
    ELSE SeqsUpTo(values, n - 1)
            \cup {Append(seq, v) : seq \in {x \in SeqsUpTo(values, n - 1) :
                                              Len(x) = n - 1},
                                   v \in values}

PromoteTos ==
    {[t |-> "str", v |-> risk] : risk \in {Ladder[i] : i \in DOMAIN Ladder}}
        \cup {[t |-> "str", v |-> "daily"],
              [t |-> "list", v |-> <<"edge", "beta">>],
              [t |-> "list", v |-> <<"beta">>],
              [t |-> "list", v |-> <<"stable", "edge">>]}

SnapDefinitions ==
    {a @@ t @@ p @@ st @@ pr :
        a \in Opt("arches", SeqsUpTo({"amd64", "arm64"}, MaxArches)),
        t \in Opt("track", {"18"}),
        p \in Opt("publish-to", {"amd64" :> <<"20">>}),
        st \in Opt("stable", BOOLEAN),
        pr \in Opt("promote-to", PromoteTos)}

InitSnap ==
    /\ Unused
    /\ snap_data \in SnapDefinitions
    /\ pc = "snap"
    /\ yaml_data = <<>>
    /\ _data = <<>>
    /\ _defaults_series = EmptyDict
    /\ _development_series = None
    /\ _codename_to_series = EmptyDict
    /\ call = [op |-> "none"]
    /\ result = ReturnNone

SpecSnap == InitSnap /\ [][NextSnap]_vars

(***************************************************************************)
(* What the loaded document says, read from yaml_data alone                *)
(***************************************************************************)
YamlHasDefaults == \E i \in DOMAIN yaml_data : yaml_data[i][1] = "defaults"

YamlDefaults ==
    IF YamlHasDefaults
    THEN yaml_data[CHOOSE i \in DOMAIN yaml_data : yaml_data[i][1] = "defaults"][2]
    ELSE EmptyDict

\* the document's items that are series, in document order
YamlSeries == SelectSeq(yaml_data, LAMBDA item : item[1] # "defaults")

YamlSeriesKeys == {YamlSeries[i][1] : i \in DOMAIN YamlSeries}

YamlBody(series_key) ==
    YamlSeries[CHOOSE i \in DOMAIN YamlSeries : YamlSeries[i][1] = series_key][2]

\* the value a series has for a field: its own, else the defaults', else `unset`
YamlSeriesField(series_key, field, unset) ==
    IF field \in DOMAIN YamlBody(series_key) THEN YamlBody(series_key)[field]
    ELSE IF field \in DOMAIN YamlDefaults THEN YamlDefaults[field]
    ELSE unset

YamlSources(series_key) == YamlSeriesField(series_key, "sources", <<>>)

YamlSourceKeys(series_key) ==
    {YamlSources(series_key)[i][1] : i \in DOMAIN YamlSources(series_key)}

YamlSourceBody(series_key, source_key) ==
    LET sources == YamlSources(series_key)
    IN sources[CHOOSE i \in DOMAIN sources : sources[i][1] = source_key][2]

(***************************************************************************)
(* C2                                                                      *)
(***************************************************************************)
\* what the view's accessor returns for a field
SeriesAccessor(series, field) ==
    CASE field = "codename" -> Series_codename(series)
      [] field = "development" -> Series_development(series)
      [] field = "supported" -> Series_supported(series)
      [] field = "lts" -> Series_lts(series)
      [] field = "esm" -> Series_esm(series)

SeriesFields == {"codename", "development", "supported", "lts", "esm"}

\* each field the series or the defaults block sets reads as the series'
\* own value when it has one and as the defaults' value otherwise
InheritsDefaults(series) ==
    /\ series.name # "defaults"
    /\ series.name \in YamlSeriesKeys
    /\ \A field \in SeriesFields :
        LET own == YamlBody(series.name)
        IN /\ field \in DOMAIN own => SeriesAccessor(series, field) = own[field]
           /\ field \notin DOMAIN own /\ field \in DOMAIN YamlDefaults
                => SeriesAccessor(series, field) = YamlDefaults[field]

\* C2: in a document with a defaults block, every Series view, enumerated or
\* looked up, has for each field the series' own value when the series sets
\* it and the defaults' value otherwise, and no view is the defaults block.
C2_SeriesInheritDefaults ==
    YamlHasDefaults =>
        /\ call.op = "series" =>
            /\ Len(result.value) = Len(YamlSeries)
            /\ \A i \in DOMAIN result.value :
                /\ result.value[i].name = YamlSeries[i][1]
                /\ InheritsDefaults(result.value[i])
        /\ call.op = "lookup_series" /\ result.kind = "Series" =>
            InheritsDefaults(result.value)
        /\ call.op = "lookup_series" /\ call.series = "defaults" =>
            result.kind = "none"

\* an enumeration where one series overrides a default and another inherits it
C2_Witness ==
    /\ call.op = "series"
    /\ YamlHasDefaults
    /\ "supported" \in DOMAIN YamlDefaults
    /\ \E i, j \in DOMAIN result.value :
        /\ "supported" \in DOMAIN YamlBody(result.value[i].name)
        /\ Series_supported(result.value[i]) = FALSE
        /\ "supported" \notin DOMAIN YamlBody(result.value[j].name)
        /\ Series_supported(result.value[j]) = TRUE

(***************************************************************************)
(* C3                                                                      *)
(***************************************************************************)
\* C3: a Source's development and supported are its own value when it sets
\* the flag, and otherwise the value of its Series view: the series' own,
\* else the defaults', else false.
C3_SourceInheritsFlags ==
    call.op = "flags" =>
        LET own == YamlSourceBody(call.series, call.source)
        IN \A flag \in {"development", "supported"} :
            result.value[flag] =
                IF flag \in DOMAIN own THEN own[flag]
                ELSE YamlSeriesField(call.series, flag, FALSE)

\* a source without the flag under a series that has it only from defaults,
\* and a source that overrides its series
C3_Witness ==
    /\ call.op = "flags"
    /\ "development" \notin DOMAIN YamlSourceBody(call.series, call.source)
    /\ "development" \notin DOMAIN YamlBody(call.series)
    /\ "development" \in DOMAIN YamlDefaults
    /\ result.value["development"] = TRUE
    /\ "supported" \in DOMAIN YamlSourceBody(call.series, call.source)
    /\ result.value["supported"] # YamlSeriesField(call.series, "supported", FALSE)

(***************************************************************************)
(* C4, C5                                                                  *)
(***************************************************************************)
\* how many of the three selectors the call supplies
Supplied(c) ==
    (IF Truthy(c.series) THEN 1 ELSE 0) + (IF Truthy(c.codename) THEN 1 ELSE 0)
        + (IF c.development THEN 1 ELSE 0)

InvalidArgument == Raise("ValueError")

\* C4: lookup_series with none of series, codename and development supplied
\* raises ValueError, whatever the document, and returns no Series view.
C4_NoSelectorIsInvalid ==
    call.op = "lookup_series" /\ Supplied(call) = 0 => result = InvalidArgument

C4_Witness ==
    /\ call.op = "lookup_series"
    /\ Supplied(call) = 0
    /\ result = InvalidArgument
    /\ Len(_data) > 0

\* C5: lookup_series requires exactly one of its three selectors: a call
\* that supplies two or three of them fails with an invalid-argument error,
\* just like a call that supplies none.
C5_ExactlyOneSelector ==
    call.op = "lookup_series" /\ Supplied(call) # 1 => result = InvalidArgument


(***************************************************************************)
(* C6                                                                      *)
(***************************************************************************)
\* the codenames the document's series carry
YamlCodenames ==
    {YamlSeries[i][2]["codename"] :
        i \in {j \in DOMAIN YamlSeries : "codename" \in DOMAIN YamlSeries[j][2]}}

\* some series of the document is itself flagged as development
YamlFlagged ==
    \E i \in DOMAIN YamlSeries : Get(YamlSeries[i][2], "development", FALSE)

\* the keys of a mapping of a source, none when the mapping is missing
YamlMappingKeys(series_key, source_key, mapping) ==
    IF mapping = "snaps"
    THEN OKeys(Get(YamlSourceBody(series_key, source_key), mapping, EmptyDict))
    ELSE DOMAIN Get(YamlSourceBody(series_key, source_key), mapping, EmptyDict)

\* the call looks up a key that its mapping does not have
MissingKey ==
    \/ /\ call.op = "lookup_series"
       /\ Truthy(call.series)
       /\ call.series \notin YamlSeriesKeys
    \/ /\ call.op = "lookup_series"
       /\ ~Truthy(call.series) /\ Truthy(call.codename)
       /\ call.codename \notin YamlCodenames
    \/ /\ call.op = "lookup_series"
       /\ ~Truthy(call.series) /\ ~Truthy(call.codename) /\ call.development
       /\ ~YamlFlagged
    \/ /\ call.op = "lookup_source"
       /\ call.source_key \notin YamlSourceKeys(call.series)
    \/ /\ call.op = "lookup_package"
       /\ call.package_key
            \notin YamlMappingKeys(call.series, call.source, "packages")
    \/ /\ call.op = "lookup_snap"
       /\ call.snap_key \notin YamlMappingKeys(call.series, call.source, "snaps")

\* C6: a key lookup whose key is missing returns None and raises nothing:
\* lookup_series by an unknown key or codename or by the development flag
\* when no series is flagged, lookup_source, lookup_package and lookup_snap
\* by a key their mapping lacks, the mapping being missing or empty included.
C6_MissingKeyIsAbsent == MissingKey => result = ReturnNone

\* a lookup in a mapping that is missing from a source that exists
C6_Witness ==
    /\ MissingKey
    /\ call.op = "lookup_snap"
    /\ "snaps" \notin DOMAIN YamlSourceBody(call.series, call.source)
    /\ result = ReturnNone

(***************************************************************************)
(* C1                                                                      *)
(***************************************************************************)
\* the reference names a source the document has
NamesSource(ref) ==
    /\ ref[1] \in YamlSeriesKeys
    /\ ref[2] \in YamlSourceKeys(ref[1])

\* the Source view of a source the document has
SourceView(ref) ==
    Series_lookup_source(lookup_series(ref[1], None, FALSE).value, ref[2]).value

\* the chain of the claim, one step: the explicit list, else the versions of
\* the source derived-from names, else those of the source copy-forward
\* names (`true` names the derived-from source), else None
ChainVersions(series_key, source_key) ==
    LET own == YamlSourceBody(series_key, source_key)
    IN IF "versions" \in DOMAIN own THEN Return("list", own["versions"])
       ELSE IF "derived-from" \in DOMAIN own /\ NamesSource(own["derived-from"])
       THEN Source_versions(SourceView(own["derived-from"]))
       ELSE IF /\ "copy-forward" \in DOMAIN own
               /\ own["copy-forward"].t = "ref"
               /\ NamesSource(own["copy-forward"].v)
       THEN Source_versions(SourceView(own["copy-forward"].v))
       ELSE ReturnNone

\* the references the source carries name sources the document has
WellFormed(series_key, source_key) ==
    LET own == YamlSourceBody(series_key, source_key)
    IN /\ "derived-from" \in DOMAIN own => NamesSource(own["derived-from"])
       /\ "copy-forward" \in DOMAIN own /\ own["copy-forward"].t = "ref"
            => NamesSource(own["copy-forward"].v)

\* C1: Source.versions is the source's explicit list when it has one, else
\* the versions of the source its derived-from names, else the versions of
\* the source its copy-forward names, else None; and the first source of the
\* development series, derived from a source of the other series that has a
\* list, has that list.
C1_VersionsChain ==
    /\ call.op = "versions" /\ WellFormed(call.series, call.source)
        => result = ChainVersions(call.series, call.source)
    /\ call.op = "development_versions" =>
        LET own == YamlSourceBody(call.series, call.source)
        IN /\ "versions" \notin DOMAIN own
           /\ "derived-from" \in DOMAIN own
           /\ own["derived-from"] = Ref("16.04", "linux")
           /\ "versions" \in DOMAIN YamlSourceBody("16.04", "linux")
           => result = Return("list", VersionsList("16.04", "linux"))

(***************************************************************************)
(* C7                                                                      *)
(***************************************************************************)
\* the source of the call uses an alias: one it names, or the implied one
UsesAlias ==
    LET own == YamlSourceBody(call.series, call.source)
    IN "routing" \in DOMAIN own => own["routing"].t = "str"

\* the alias: the explicit one, else esm, devel or default by the series flags
YamlAlias ==
    LET own == YamlSourceBody(call.series, call.source)
    IN IF "routing" \in DOMAIN own THEN own["routing"].v
       ELSE IF YamlSeriesField(call.series, "esm", FALSE) THEN "esm"
       ELSE IF YamlSeriesField(call.series, "development", FALSE) THEN "devel"
       ELSE "default"

YamlHasTable ==
    \/ "routing-table" \in DOMAIN YamlBody(call.series)
    \/ "routing-table" \in DOMAIN YamlDefaults

YamlTable == YamlSeriesField(call.series, "routing-table", EmptyDict)

\* the destinations of an entry that are not null
Contents(entry) ==
    [dest \in {d \in DOMAIN entry : entry[d] # NoPockets} |-> entry[dest]]

\* C7: Source.routing with a string alias, explicit or implied, is the
\* contents of the entry of that name in the owning Series' routing table,
\* and raises ValueError when the Series has no table or the table does not
\* list the alias.
C7_AliasResolvesInSeriesTable ==
    call.op = "routing" /\ UsesAlias =>
        IF YamlHasTable /\ YamlAlias \in DOMAIN YamlTable
        THEN /\ result.kind = "Routing"
             /\ result.value.name = YamlAlias
             /\ result.value.data = Contents(YamlTable[YamlAlias])
        ELSE result = InvalidArgument

\* an explicit alias resolved in a table inherited from defaults, the entry
\* holding a null destination
C7_Witness ==
    /\ call.op = "routing"
    /\ "routing" \in DOMAIN YamlSourceBody(call.series, call.source)
    /\ UsesAlias
    /\ YamlAlias = "legacy"
    /\ "routing-table" \notin DOMAIN YamlBody(call.series)
    /\ result.kind = "Routing"
    /\ result.value.data = "build" :> Pockets(<<"ppa", "legacy">>)

\* an implied alias that the table of the series does not list
C7_WitnessImplied ==
    /\ call.op = "routing"
    /\ "routing" \notin DOMAIN YamlSourceBody(call.series, call.source)
    /\ YamlAlias = "esm"
    /\ YamlHasTable
    /\ result = InvalidArgument

(***************************************************************************)
(* C8, C9, C10                                                             *)
(***************************************************************************)
Built == pc = "built" /\ result.kind = "Snap"

\* the value is a list that is a non-empty prefix of the ladder
LadderPrefix(promote_to) ==
    /\ promote_to.t = "list"
    /\ Len(promote_to.v) \in 1..Len(Ladder)
    /\ promote_to.v = SubSeq(Ladder, 1, Len(promote_to.v))

\* the ladder up to a risk on it
UpTo(risk) == SubSeq(Ladder, 1, CHOOSE i \in DOMAIN Ladder : Ladder[i] = risk)

\* the cases the claim names
NamedCases ==
    /\ "promote-to" \notin DOMAIN call.data /\ "stable" \notin DOMAIN call.data
        => Snap_promote_to(result.value).v = <<"edge">>
    /\ "promote-to" \in DOMAIN call.data
            /\ call.data["promote-to"] = [t |-> "str", v |-> "beta"]
        => Snap_promote_to(result.value).v = <<"edge", "beta">>
    /\ "promote-to" \notin DOMAIN call.data /\ "stable" \in DOMAIN call.data
            /\ call.data["stable"]
        => Snap_promote_to(result.value).v = Ladder

\* C8 as claimed: whatever the snap definition, promote_to is a non-empty
\* prefix of the ladder after construction.
C8_PromoteToAlwaysPrefix ==
    Built => LadderPrefix(Snap_promote_to(result.value)) /\ NamedCases

\* C8 as amended: when `promote-to` is missing or a string, promote_to is a
\* non-empty prefix of the ladder: up to that string when it is a risk, the
\* whole ladder when it is not, and without `promote-to` up to stable or
\* candidate as `stable` is true or false, [edge] when there is neither; a
\* `promote-to` that is already a list is kept as it is.
C8_StringPromoteToIsPrefix ==
    Built =>
        LET given == "promote-to" \in DOMAIN call.data
            promote_to == Snap_promote_to(result.value)
        IN /\ NamedCases
           /\ ~given \/ call.data["promote-to"].t = "str" =>
                LadderPrefix(promote_to)
           /\ given /\ call.data["promote-to"].t = "str" =>
                promote_to.v =
                    IF InSeq(call.data["promote-to"].v, Ladder)
                    THEN UpTo(call.data["promote-to"].v) ELSE Ladder
           /\ ~given /\ "stable" \in DOMAIN call.data =>
                promote_to.v = IF call.data["stable"] THEN Ladder
                               ELSE UpTo("candidate")
           /\ given /\ call.data["promote-to"].t # "str" =>
                promote_to = call.data["promote-to"]

\* a definition with promote-to "beta" and one with `stable: false` alone
C8_Witness ==
    /\ Built
    /\ "promote-to" \in DOMAIN call.data
    /\ call.data["promote-to"] = [t |-> "str", v |-> "beta"]
    /\ Snap_promote_to(result.value) = [t |-> "list", v |-> <<"edge", "beta">>]

\* C9 as claimed: after construction stable is true exactly when "stable"
\* is in promote_to, also when the definition gives both fields.
C9_StableMatchesPromoteTo ==
    Built => Snap_promote_to_risk(result.value, "stable")
                = Return("bool", Snap_stable(result.value))

\* C9 as amended: stable is true exactly when "stable" is in promote_to
\* whenever the definition does not give both `stable` and `promote-to`; a
\* `stable` the definition gives is kept as given, whatever promote_to holds.
C9_StableDerivedWhenNotGiven ==
    Built =>
        /\ "stable" \notin DOMAIN call.data \/ "promote-to" \notin DOMAIN call.data
            => Snap_promote_to_risk(result.value, "stable")
                    = Return("bool", Snap_stable(result.value))
        /\ "stable" \in DOMAIN call.data
            => Snap_stable(result.value) = call.data["stable"]

\* promote-to "stable" alone: the flag is derived
C9_Witness ==
    /\ Built
    /\ "stable" \notin DOMAIN call.data
    /\ "promote-to" \in DOMAIN call.data
    /\ call.data["promote-to"] = [t |-> "str", v |-> "stable"]
    /\ Snap_stable(result.value) = TRUE

\* C10: a definition with `arches` and no `publish-to` has, after
\* construction, a publish_to that maps each listed architecture to the list
\* holding its track alone, "latest" without a track; a `publish-to` the
\* definition gives is returned unchanged.
C10_ArchesBecomePublishTo ==
    Built =>
        /\ "arches" \in DOMAIN call.data /\ "publish-to" \notin DOMAIN call.data
            => LET arches == call.data["arches"]
                   track == IF "track" \in DOMAIN call.data
                            THEN call.data["track"] ELSE "latest"
                   publish_to == Snap_publish_to(result.value)
               IN /\ publish_to.kind = "dict"
                  /\ DOMAIN publish_to.value = {arches[i] : i \in DOMAIN arches}
                  /\ \A arch \in DOMAIN publish_to.value :
                        publish_to.value[arch] = <<track>>
        /\ "publish-to" \in DOMAIN call.data
            => Snap_publish_to(result.value)
                    = Return("dict", call.data["publish-to"])

\* arches [amd64, arm64] with track "18"
C10_Witness ==
    /\ Built
    /\ "publish-to" \notin DOMAIN call.data
    /\ "arches" \in DOMAIN call.data
    /\ call.data["arches"] = <<"amd64", "arm64">>
    /\ "track" \in DOMAIN call.data
    /\ Snap_publish_to(result.value)
            = Return("dict", ("amd64" :> <<"18">>) @@ ("arm64" :> <<"18">>))

(***************************************************************************)
(* KernelRepoEntry, lines 68-102, and the `repo` accessor of a snap,       *)
(* lines 165-170.  A `repo` value is [t |-> "list", v |-> a sequence] or   *)
(* [t |-> "dict", v |-> a dict] or [t |-> "none"].                         *)
(***************************************************************************)
\* `data if data else {}`, `if not data`
Empty(data) ==
    \/ data.t = "none"
    \/ data.t = "list" /\ data.v = <<>>
    \/ data.t = "dict" /\ DOMAIN data.v = {}

KernelRepoEntry(owner, data) ==
    IF data.t = "list"
    THEN IF Len(data.v) = 0 THEN Raise("IndexError")
         ELSE LET new_data ==
                    IF Len(data.v) = 1
                    THEN ("url" :> data.v[1]) @@ ("branch" :> "master")
                    ELSE IF Len(data.v) = 2
                         THEN ("url" :> data.v[1]) @@ ("branch" :> data.v[2])
                         ELSE "url" :> data.v[1]
              IN Return("Repo", [owner |-> owner, data |-> new_data])
    ELSE Return("Repo", [owner |-> owner,
                         data |-> IF Empty(data) THEN EmptyDict ELSE data.v])

Repo_url(repo) ==
    IF "url" \in DOMAIN repo.data THEN Return("str", repo.data["url"])
    ELSE Raise("KeyError")

Repo_branch(repo) == Return("str", Get(repo.data, "branch", None))

Snap_repo(snap) ==
    LET data == Get(snap.data, "repo", [t |-> "none"])
    IN IF Empty(data) THEN ReturnNone ELSE KernelRepoEntry(snap.name, data)

\* snap.repo on the snap built over snap_data
SnapRepo ==
    /\ pc = "built"
    /\ pc' = "repo"
    /\ call' = [op |-> "repo", data |-> Get(snap_data, "repo", [t |-> "none"])]
    /\ result' = Snap_repo([source |-> None, name |-> "pc-kernel",
                            data |-> snap_data])
    /\ UNCHANGED <<yaml_data, ks_vars, snap_data, loader_vars, iso_vars, qa_vars, lp_vars>>

\* repo.url and repo.branch on the entry snap.repo returned
RepoFields ==
    /\ pc = "repo"
    /\ result.kind = "Repo"
    /\ pc' = "fields"
    /\ call' = [op |-> "fields", data |-> call.data, repo |-> result.value]
    /\ result' = [kind |-> "fields", url |-> Repo_url(result.value),
                  branch |-> Repo_branch(result.value)]
    /\ UNCHANGED <<yaml_data, ks_vars, snap_data, loader_vars, iso_vars, qa_vars, lp_vars>>

NextRepo ==
    \/ KernelSnapEntry__init__
    \/ SnapRepo
    \/ RepoFields

MaxRepoList == 3

RepoStrings == {"git://x", "git://y", "foo"}

\* the `repo` values of a snap: list forms, record forms, null
RepoValues ==
    {[t |-> "list", v |-> seq] : seq \in SeqsUpTo(RepoStrings, MaxRepoList)}
        \cup {[t |-> "dict", v |-> u @@ b] :
                u \in Opt("url", {"git://x", "git://y"}),
                b \in Opt("branch", {"foo", "master"})}
        \cup {[t |-> "none"]}

InitRepo ==
    /\ Unused
    /\ snap_data \in Opt("repo", RepoValues)
    /\ pc = "snap"
    /\ yaml_data = <<>>
    /\ _data = <<>>
    /\ _defaults_series = EmptyDict
    /\ _development_series = None
    /\ _codename_to_series = EmptyDict
    /\ call = [op |-> "none"]
    /\ result = ReturnNone

SpecRepo == InitRepo /\ [][NextRepo]_vars

\* the fields of a repo entry built from a list
ListForm ==
    /\ pc = "fields"
    /\ call.data.t = "list"

\* C11: a repo given as the list [url] becomes the record of that url with
\* branch "master", the list [url, branch] the record of that url and that
\* branch; every repo entry built from a list has a url and a branch that
\* is not None.
C11_ListFormNormalized ==
    ListForm =>
        /\ Len(call.data.v) = 1 =>
              call.repo.data =
                  ("url" :> call.data.v[1]) @@ ("branch" :> "master")
        /\ Len(call.data.v) = 2 =>
              call.repo.data =
                  ("url" :> call.data.v[1]) @@ ("branch" :> call.data.v[2])
        /\ result.url = Return("str", call.data.v[1])
        /\ result.branch.kind = "str"
        /\ result.branch.value # None

\* C12: reads never change the parsed document: once the KernelSeries is
\* built, the series it holds and its defaults block are, after any sequence
\* of accesses, those of the document as it was parsed.
C12_ReadsLeaveDocument ==
    pc \in {"ready", "returned"} =>
        /\ _data = ODel(yaml_data, "defaults")
        /\ _defaults_series = DefaultsOf(yaml_data)

(***************************************************************************)
(* The loader: KernelSeries.__load_once, lines 554-562, and the head of    *)
(* KernelSeries.__init__, lines 564-573.  A text is named by a string and  *)
(* yaml_safe_load gives the document it holds.  fetched[url] counts the    *)
(* urlopen calls on url: `once` the successful ones made by __load_once,   *)
(* `direct` the successful ones made by __init__ for an explicit url,      *)
(* `failed` the ones that raised; `cached` counts the texts __load_once    *)
(* returned without calling urlopen.                                       *)
(***************************************************************************)
_url ==
    "https://git.launchpad.net/~canonical-kernel/+git/kteam-tools/plain/info/kernel-series.yaml"

\* 'file://' and the real path of ../info/kernel-series.yaml beside the module
_url_local == "file:///srv/info/kernel-series.yaml"

ExplicitUrls == {"file:///tmp/kernel-series.yaml", _url}

Urls == {_url, _url_local} \cup ExplicitUrls

\* the text each url serves
Served(url) ==
    IF url = _url THEN "remote text"
    ELSE IF url = _url_local THEN "local text" ELSE "other text"

Texts == {Served(url) : url \in Urls} \cup {"given text"}

yaml_safe_load(text) ==
    IF text = "remote text"
    THEN <<<<"16.04", "codename" :> "xenial">>,
           <<"18.04", ("codename" :> "bionic") @@ ("development" :> TRUE)>>>>
    ELSE IF text = "local text"
    THEN <<<<"defaults", "supported" :> TRUE>>,
           <<"16.04", "codename" :> "xenial">>>>
    ELSE IF text = "other text"
    THEN <<<<"18.04", "development" :> TRUE>>>>
    ELSE <<<<"16.04", EmptyDict>>>>

NoFetch == [once |-> 0, direct |-> 0, failed |-> 0, cached |-> 0]

MaxFetches == 2

\* url may be read once more: returned from the cache when __load_once
\* holds it, fetched otherwise
MayFetch(url, explicit) ==
    IF ~explicit /\ url \in DOMAIN _data_txt
    THEN fetched[url].cached < MaxFetches
    ELSE fetched[url].once + fetched[url].direct + fetched[url].failed
            < MaxFetches

\* a loader that looks nothing up in the cache
load_once_Uncached(cache, count, url, ok) ==
    IF ok
    THEN [raised |-> FALSE, data |-> Served(url),
          cache |-> SetKey(cache, url, Served(url)),
          count |-> [count EXCEPT ![url].once = @ + 1]]
    ELSE [raised |-> TRUE, data |-> None, cache |-> cache,
          count |-> [count EXCEPT ![url].failed = @ + 1]]

\* __load_once(url); ok says whether urlopen succeeds if it is called
load_once(cache, count, url, ok) ==
    IF url \in DOMAIN cache
    THEN [raised |-> FALSE, data |-> cache[url], cache |-> cache,
          count |-> [count EXCEPT ![url].cached = @ + 1]]
    ELSE IF ok
         THEN [raised |-> FALSE, data |-> Served(url),
               cache |-> SetKey(cache, url, Served(url)),
               count |-> [count EXCEPT ![url].once = @ + 1]]
         ELSE [raised |-> TRUE, data |-> None, cache |-> cache,
               count |-> [count EXCEPT ![url].failed = @ + 1]]

\* lines 565-572: the text the constructor parses, and what fetching it did
LoadText(url, data, use_local, ok) ==
    IF Truthy(data) \/ Truthy(url)
    THEN IF Truthy(url)
         THEN IF ok
              THEN [raised |-> FALSE, data |-> Served(url),
                    cache |-> _data_txt,
                    count |-> [fetched EXCEPT ![url].direct = @ + 1]]
              ELSE [raised |-> TRUE, data |-> None, cache |-> _data_txt,
                    count |-> [fetched EXCEPT ![url].failed = @ + 1]]
         ELSE [raised |-> FALSE, data |-> data, cache |-> _data_txt,
               count |-> fetched]
    ELSE load_once(_data_txt, fetched,
                   IF use_local THEN _url_local ELSE _url, ok)

\* the url the constructor reads, None when it reads the `data` argument
UrlRead(url, data, use_local) ==
    IF Truthy(url) THEN url
    ELSE IF Truthy(data) THEN None
    ELSE IF use_local THEN _url_local ELSE _url

\* KernelSeries(url, data, use_local), the whole constructor
Construct(url, data, use_local, ok) ==
    LET loaded == LoadText(url, data, use_local, ok)
        doc == yaml_safe_load(loaded.data)
    IN /\ pc \in {"start", "ready"}
       /\ UrlRead(url, data, use_local) # None
            => MayFetch(UrlRead(url, data, use_local), Truthy(url))
       /\ pc' = "ready"
       /\ call' = [op |-> "KernelSeries", url |-> url, data |-> data,
                   use_local |-> use_local]
       /\ _data_txt' = loaded.cache
       /\ fetched' = loaded.count
       /\ IF loaded.raised
          THEN /\ result' = Raise("URLError")
               /\ UNCHANGED <<yaml_data, ks_vars>>
          ELSE /\ result' = ReturnNone
               /\ yaml_data' = doc
               /\ _development_series' = ScanDevelopment(doc, 1, None)
               /\ _codename_to_series' = ScanCodenames(doc, 1, EmptyDict)
               /\ _defaults_series' = DefaultsOf(doc)
               /\ _data' = ODel(doc, "defaults")
       /\ UNCHANGED <<snap_data, qa_vars, lp_vars, iso_vars>>

\* KernelSeries() and KernelSeries(use_local=True)
ConstructDefault ==
    \E use_local \in BOOLEAN, ok \in BOOLEAN :
        Construct(None, None, use_local, ok)

\* KernelSeries(url=...)
ConstructUrl ==
    \E url \in ExplicitUrls, use_local \in BOOLEAN, ok \in BOOLEAN :
        Construct(url, None, use_local, ok)

\* KernelSeries(data=...)
ConstructData ==
    \E use_local \in BOOLEAN : Construct(None, "given text", use_local, TRUE)

NextLoader ==
    \/ ConstructDefault
    \/ ConstructUrl
    \/ ConstructData

InitLoader ==
    /\ _data_txt = EmptyDict
    /\ fetched = [url \in Urls |-> NoFetch]
    /\ pc = "start"
    /\ yaml_data = <<>>
    /\ _data = <<>>
    /\ _defaults_series = EmptyDict
    /\ _development_series = None
    /\ _codename_to_series = EmptyDict
    /\ snap_data = EmptyDict
    /\ call = [op |-> "none"]
    /\ result = ReturnNone
    /\ access = None
    /\ tracker = EmptyDict
    /\ rpc = <<>>
    /\ held = EmptyDict
    /\ configfile = None
    /\ config = EmptyDict
    /\ target = None
    /\ stdout = <<>>
    /\ tracker_products = None
    /\ tracker_milestones = None
    /\ bug = EmptyDict
    /\ callbacks = <<>>

SpecLoader == InitLoader /\ [][NextLoader]_vars

\* C13 as stated: over any sequence of constructions every url, default or
\* explicitly supplied, is fetched at most once.
C13_EachUrlFetchedOnce ==
    \A url \in Urls : fetched[url].once + fetched[url].direct <= 1

\* C13: over any sequence of constructions __load_once fetches each default
\* url at most once and caches its text; a failed fetch leaves no cache
\* entry; an explicitly supplied url is never cached, whatever was fetched
\* from it.
C13_DefaultUrlFetchedOnce ==
    /\ \A url \in Urls :
        /\ fetched[url].once <= 1
        /\ url \in DOMAIN _data_txt <=> fetched[url].once = 1
        /\ url \in DOMAIN _data_txt => _data_txt[url] = Served(url)
    /\ DOMAIN _data_txt \subseteq {_url, _url_local}
    /\ (call.op = "KernelSeries" /\ ~Raised(result)
            /\ ~Truthy(call.url) /\ ~Truthy(call.data))
        => yaml_data = yaml_safe_load(
                _data_txt[IF call.use_local THEN _url_local ELSE _url])

\* the default url failed once, was then fetched, and a further KernelSeries()
\* was served from the cache
C13_Witness ==
    /\ fetched[_url].failed = 1
    /\ fetched[_url].once = 1
    /\ fetched[_url].cached = 1
    /\ _url \in DOMAIN _data_txt
    /\ call = [op |-> "KernelSeries", url |-> None, data |-> None,
               use_local |-> FALSE]
    /\ ~Raised(result)

(***************************************************************************)
(* ubuntu-archive-tools/qatracker.py.  A status argument is a tagged       *)
(* value: [t |-> "int", v |-> i], [t |-> "bool", v |-> b],                 *)
(* [t |-> "str", v |-> s], [t |-> "list", v |-> a sequence of those] or    *)
(* [t |-> "none"].                                                         *)
(***************************************************************************)
qatracker_build_milestone_status ==
    <<"Active", "Re-building", "Disabled", "Superseded", "Ready">>

qatracker_milestone_status == <<"Testing", "Released", "Archived">>

qatracker_product_status == <<"Active", "Disabled">>

qatracker_result_result == <<"Failed", "Passed", "In progress">>

qatracker_result_status == <<"Active", "Disabled">>

\* str.lower() on the strings the model uses
lower(s) ==
    CASE s \in {"Testing", "TESTING", "tEsTiNg"} -> "testing"
      [] s \in {"Released", "RELEASED"} -> "released"
      [] s \in {"Archived", "ARCHIVED"} -> "archived"
      [] s \in {"Active", "ACTIVE"} -> "active"
      [] s \in {"Disabled", "DISABLED"} -> "disabled"
      [] s \in {"Re-building"} -> "re-building"
      [] s \in {"Superseded"} -> "superseded"
      [] s \in {"Ready"} -> "ready"
      [] s \in {"Failed", "FAILED"} -> "failed"
      [] s \in {"Passed", "PASSED"} -> "passed"
      [] s \in {"In progress", "IN PROGRESS"} -> "in progress"
      [] s \in {"Ubuntu Desktop", "UBUNTU DESKTOP"} -> "ubuntu desktop"
      [] s \in {"Ubuntu Server", "UBUNTU SERVER"} -> "ubuntu server"
      [] s \in {"Kubuntu"} -> "kubuntu"
      [] s \in {"Focal Daily", "FOCAL DAILY"} -> "focal daily"
      [] s \in {"Bionic Final"} -> "bionic final"
      [] s \in {"Groovy Daily"} -> "groovy daily"
      [] s \in {"Bogus"} -> "bogus"
      [] OTHER -> s

\* [entry.lower() for entry in status_list]
LowerAll(status_list) == [i \in DOMAIN status_list |-> lower(status_list[i])]

\* list.index(x): the first position of x, counted from 0
IndexOf(seq, x) == (CHOOSE i \in DOMAIN seq :
                        seq[i] = x /\ \A j \in 1..(i - 1) : seq[j] # x) - 1

\* process() that lets any integer through
process_Unchecked(status_list, status) ==
    LET valid_status == LowerAll(status_list)
    IN CASE status.t = "int" -> Return("int", status.v)
         [] status.t = "bool" -> Return("int", IF status.v THEN 1 ELSE 0)
         [] status.t = "str" ->
                IF ~InSeq(lower(status.v), valid_status)
                THEN Raise("IndexError")
                ELSE Return("int", IndexOf(valid_status, lower(status.v)))
         [] OTHER -> Raise("TypeError")

\* process(), lines 441-456
process(status_list, status) ==
    LET valid_status == LowerAll(status_list)
    IN CASE status.t = "int" ->
                IF status.v < 0 \/ status.v >= Len(valid_status)
                THEN Raise("IndexError")
                ELSE Return("int", status.v)
         [] status.t = "bool" ->
                IF (IF status.v THEN 1 ELSE 0) >= Len(valid_status)
                THEN Raise("IndexError")
                ELSE Return("int", IF status.v THEN 1 ELSE 0)
         [] status.t = "str" ->
                IF ~InSeq(lower(status.v), valid_status)
                THEN Raise("IndexError")
                ELSE Return("int", IndexOf(valid_status, lower(status.v)))
         [] OTHER -> Raise("TypeError")

RECURSIVE ProcessAll(_, _, _, _)
\* line 462: entry i was processed to r; a raise ends the loop, a number
\* joins record_filter and the loop goes on
ProcessedEntry(status_list, entries, i, record_filter, r) ==
    IF Raised(r) THEN r
    ELSE ProcessAll(status_list, entries, i + 1, record_filter \cup {r.value})

\* lines 461-462: the entries i.. of the list added to record_filter
ProcessAll(status_list, entries, i, record_filter) ==
    IF i > Len(entries) THEN Return("set", record_filter)
    ELSE ProcessedEntry(status_list, entries, i, record_filter,
                   process(status_list, entries[i]))

RECURSIVE Ascending(_)
\* list(record_filter): a set of small integers lists in ascending order
Ascending(S) ==
    IF S = {} THEN <<>>
    ELSE LET least == CHOOSE x \in S : \A y \in S : x <= y
         IN <<least>> \o Ascending(S \ {least})

\* line 466: list(record_filter), unless filling the set raised
AsList(filled) ==
    IF Raised(filled) THEN filled
    ELSE Return("list", Ascending(filled.value))

\* QATracker._get_valid_id_list, lines 434-466
_get_valid_id_list(status_list, status) ==
    AsList(ProcessAll(status_list,
                      IF status.t = "list" THEN status.v ELSE <<status>>,
                      1, {}))

(***************************************************************************)
(* The remote tracker.  `tracker` holds its records; `rpc` lists the       *)
(* remote methods the last client operation called, in order.              *)
(***************************************************************************)
Mutating == {"builds.add", "results.add", "rebuilds.update_status",
             "results.delete", "results.update"}

\* the records of a collection whose status is in the filter, in store order
Listed(records, record_filter) ==
    SelectSeq(records, LAMBDA r : InSeq(r.status, record_filter))

\* QATracker.__init__, lines 399-432: probe the server, then ask for access
QATracker__init__ ==
    /\ pc = "new"
    /\ pc' = "ready"
    /\ rpc' = <<"system.listMethods", "get_access">>
    /\ access' = tracker.access
    /\ call' = [op |-> "none"]
    /\ result' = ReturnNone
    /\ UNCHANGED <<yaml_data, ks_vars, snap_data, loader_vars, iso_vars, lp_vars,
                   tracker, held>>

\* the body the get_* methods share (lines 483-490, 498-505, 254-261,
\* 178-185): a raise of the filter propagates, an empty filter asks the
\* server nothing, otherwise `method` is called and the records whose
\* status is in the filter are returned
GetList(record_filter, method, records) ==
    IF Raised(record_filter) THEN [rpc |-> <<>>, result |-> record_filter]
    ELSE IF Len(record_filter.value) = 0
         THEN [rpc |-> <<>>, result |-> Return("list", <<>>)]
         ELSE [rpc |-> <<method>>,
               result |-> Return("list", Listed(records, record_filter.value))]

\* QATracker.get_milestones(status), lines 477-490
get_milestones(status) ==
    GetList(_get_valid_id_list(qatracker_milestone_status, status),
            "milestones.get_list", tracker.milestones)

\* QATracker.get_products(status), lines 492-505
get_products(status) ==
    GetList(_get_valid_id_list(qatracker_product_status, status),
            "products.get_list", tracker.products)

\* QATrackerMilestone.get_builds(status), lines 247-261
get_builds(milestone, status) ==
    GetList(_get_valid_id_list(qatracker_build_milestone_status, status),
            "builds.get_list",
            SelectSeq(tracker.builds, LAMBDA b : b.milestoneid = milestone.id))

\* QATrackerBuild.get_results(testcase, status), lines 159-185, for an
\* integer testcase, on the records `results` of the server
get_results(results, build, testcase, status) ==
    IF testcase = 0 THEN [rpc |-> <<>>, result |-> Raise("IndexError")]
    ELSE GetList(_get_valid_id_list(qatracker_result_status, status),
                 "results.get_list",
                 SelectSeq(results, LAMBDA r : r.buildid = build.id
                                               /\ r.testcase = testcase))

\* the first entry of a list whose position is among `hits`, None without
\* one: the search loops that break at the first match
FirstOf(entries, hits) ==
    IF hits # {}
    THEN Return("entry",
                entries[CHOOSE i \in hits : \A j \in hits : i <= j])
    ELSE ReturnNone

\* what a client operation did: the remote calls it made, what it returned
\* or raised, and the records of the server and the object held afterwards
Outcome(calls, r, store, object) ==
    [rpc |-> calls, result |-> r, tracker |-> store, held |-> object]

\* the server's builds.add: a new active build, after the builds it holds;
\* a server that supersedes marks the product's older builds Superseded
builds_add(productid, milestoneid, version) ==
    LET older == [i \in DOMAIN tracker.builds |->
                    IF tracker.supersedes
                       /\ tracker.builds[i].productid = productid
                       /\ tracker.builds[i].milestoneid = milestoneid
                    THEN [tracker.builds[i] EXCEPT !.status = 3]
                    ELSE tracker.builds[i]]
    IN [tracker EXCEPT
            !.builds = Append(older, [id |-> tracker.nextid,
                                      productid |-> productid,
                                      milestoneid |-> milestoneid,
                                      version |-> version, status |-> 0]),
            !.nextid = @ + 1]

\* lines 213-245 of add_build: what it does once the access level allows
\* it; ok says whether the server stores the build or refuses it
AddBuildAllowed(milestone, product, version, notify, ok) ==
    IF notify.t # "bool"
    THEN Outcome(<<>>, Raise("TypeError"), tracker, held)
    ELSE
    LET valid_products == get_products([t |-> "int", v |-> 0])
        listed == valid_products.result.value
        Matches(entry) ==
            \/ product.t = "str" /\ lower(entry.title) = lower(product.v)
            \/ product.t = "int" /\ entry.id = product.v
        build_product ==
            IF product.t = "Product" THEN Return("entry", product.v)
            ELSE FirstOf(listed, {i \in DOMAIN listed : Matches(listed[i])})
        looked == IF product.t = "Product" THEN <<>> ELSE valid_products.rpc
    IN IF build_product.kind = "none"
       THEN Outcome(looked, Raise("IndexError"), tracker, held)
       ELSE IF build_product.value.status # 0
       THEN Outcome(looked, Raise("TypeError"), tracker, held)
       ELSE
       LET store == IF ok THEN builds_add(build_product.value.id,
                                          milestone.id, version)
                    ELSE tracker
           active == Listed(SelectSeq(store.builds,
                                LAMBDA b : b.milestoneid = milestone.id), <<0>>)
           IsNew(entry) == /\ entry.productid = build_product.value.id
                           /\ entry.version = version
       IN Outcome(looked \o <<"builds.add", "builds.get_list">>,
                  FirstOf(active, {i \in DOMAIN active : IsNew(active[i])}),
                  store, held)

\* an add_build that checks no access level
add_build_Ungated(milestone, product, version, notify, ok) ==
    IF milestone.status # 0
    THEN Outcome(<<>>, Raise("TypeError"), tracker, held)
    ELSE AddBuildAllowed(milestone, product, version, notify, ok)

\* QATrackerMilestone.add_build(product, version, note, notify), 203-245
add_build(milestone, product, version, notify, ok) ==
    IF milestone.status # 0
    THEN Outcome(<<>>, Raise("TypeError"), tracker, held)
    ELSE IF access # "admin" /\ access # None
    THEN Outcome(<<>>, Raise("Exception: Access denied"), tracker, held)
    ELSE AddBuildAllowed(milestone, product, version, notify, ok)

\* the bugs argument is a dict of positive bug numbers to 0 or 1
BugsValid(bugs) ==
    \A n \in DOMAIN bugs : n > 0 /\ bugs[n] \in {0, 1}

\* lines 142-147: xmlrpclib marshals the arguments of results.add before it
\* sends anything, and a struct marshals only when its keys are strings; the
\* keys of a bugs dict that passed lines 135-140 are integers, so only the
\* empty dict marshals
Marshals(bugs) == DOMAIN bugs = {}

\* QATrackerBuild.add_result(testcase, result, comment, hardware, bugs),
\* lines 107-157, for an integer testcase; ok says whether the server
\* stores the result or answers -1.  A bugs dict that does not marshal
\* raises TypeError inside results.add, before the request is sent.
add_result(build, testcase, r, bugs, ok) ==
    IF access \notin {"user", "admin"} /\ access # None
    THEN Outcome(<<>>, Raise("Exception: Access denied"), tracker, held)
    ELSE IF testcase = 0
    THEN Outcome(<<>>, Raise("IndexError"), tracker, held)
    ELSE IF r.t = "list"
    THEN Outcome(<<>>, Raise("TypeError"), tracker, held)
    ELSE
    LET build_result == _get_valid_id_list(qatracker_result_result, r)
    IN IF Raised(build_result)
       THEN Outcome(<<>>, build_result, tracker, held)
       ELSE IF ~BugsValid(bugs)
       THEN Outcome(<<>>, Raise("ValueError"), tracker, held)
       ELSE IF ~Marshals(bugs)
       THEN Outcome(<<>>, Raise("TypeError"), tracker, held)
       ELSE IF ~ok
       THEN Outcome(<<"results.add">>,
                    Raise("Exception: Couldn't post your result."),
                    tracker, held)
       ELSE
       LET resultid == tracker.nextid
           store == [tracker EXCEPT
                        !.results = Append(@, [id |-> resultid,
                                               buildid |-> build.id,
                                               testcase |-> testcase,
                                               result |-> build_result.value[1],
                                               status |-> 0]),
                        !.nextid = @ + 1]
           listed == get_results(store.results, build, testcase,
                                 [t |-> "int", v |-> 0])
       IN Outcome(<<"results.add">> \o listed.rpc,
                  FirstOf(listed.result.value,
                          {i \in DOMAIN listed.result.value :
                                listed.result.value[i].id = resultid}),
                  store, held)

\* QATrackerRebuild.save(), lines 301-315
Rebuild_save(rebuild, ok) ==
    IF access # "admin" /\ access # None
    THEN Outcome(<<>>, Raise("Exception: Access denied"), tracker, held)
    ELSE IF ~ok
    THEN Outcome(<<"rebuilds.update_status">>,
                 Raise("Exception: Failed to update rebuild"), tracker, held)
    ELSE Outcome(<<"rebuilds.update_status">>, Return("bool", TRUE),
                 [tracker EXCEPT !.rebuild.status = rebuild.status], held)

\* the server's results.delete and results.update
SetResult(id, field, value) ==
    [tracker EXCEPT !.results =
        [i \in DOMAIN @ |-> IF @[i].id = id
                            THEN IF field = "status"
                                 THEN [@[i] EXCEPT !.status = value]
                                 ELSE [@[i] EXCEPT !.result = value]
                            ELSE @[i]]]

\* QATrackerResult.delete(), lines 327-343
Result_delete(ok) ==
    IF access \notin {"user", "admin"} /\ access # None
    THEN Outcome(<<>>, Raise("Exception: Access denied"), tracker, held)
    ELSE IF held.deleted
    THEN Outcome(<<>>, Raise("IndexError"), tracker, held)
    ELSE IF ~ok
    THEN Outcome(<<"results.delete">>,
                 Raise("Exception: Failed to remove result"), tracker, held)
    ELSE Outcome(<<"results.delete">>, ReturnNone,
                 SetResult(held.id, "status", 1),
                 [held EXCEPT !.status = 1, !.deleted = TRUE])

\* a save that does not look at the deleted mark
Result_save_Forgetful(ok) ==
    IF access \notin {"user", "admin"} /\ access # None
    THEN Outcome(<<>>, Raise("Exception: Access denied"), tracker, held)
    ELSE IF ~ok
    THEN Outcome(<<"results.update">>,
                 Raise("Exception: Failed to update result"), tracker, held)
    ELSE Outcome(<<"results.update">>, Return("bool", TRUE),
                 SetResult(held.id, "result", held.result), held)

\* QATrackerResult.save(), lines 345-363
Result_save(ok) ==
    IF access \notin {"user", "admin"} /\ access # None
    THEN Outcome(<<>>, Raise("Exception: Access denied"), tracker, held)
    ELSE IF held.deleted
    THEN Outcome(<<>>, Raise("IndexError"), tracker, held)
    ELSE IF ~ok
    THEN Outcome(<<"results.update">>,
                 Raise("Exception: Failed to update result"), tracker, held)
    ELSE Outcome(<<"results.update">>, Return("bool", TRUE),
                 SetResult(held.id, "result", held.result), held)
(***************************************************************************)
(* A client of the tracker: it connects, then calls the operations.        *)
(***************************************************************************)
MaxBuilds == 2

MaxResults == 2

\* the client calls an operation once and keeps what it did
Did(c, out) ==
    /\ pc = "ready"
    /\ pc' = "returned"
    /\ call' = c
    /\ \E done \in {out} :
        /\ result' = done.result
        /\ rpc' = done.rpc
        /\ tracker' = done.tracker
        /\ held' = done.held
    /\ UNCHANGED <<yaml_data, ks_vars, snap_data, loader_vars, iso_vars, lp_vars, access>>

\* the status filters a caller passes
StatusEntries ==
    {[t |-> "int", v |-> i] : i \in -1..3}
        \cup {[t |-> "str", v |-> s] :
                s \in {"Testing", "tEsTiNg", "released", "ARCHIVED", "Bogus"}}
        \cup {[t |-> "bool", v |-> TRUE], [t |-> "none"]}

MaxFilter == 2

StatusArgs ==
    StatusEntries
        \cup {[t |-> "list", v |-> seq] : seq \in SeqsUpTo(StatusEntries, MaxFilter)}

\* _get_valid_id_list(status_list, status) called on its own
GetValidIdList ==
    \E status \in StatusArgs,
       status_list \in {qatracker_milestone_status,
                        qatracker_build_milestone_status} :
        Did([op |-> "_get_valid_id_list", status_list |-> status_list,
             status |-> status],
            Outcome(<<>>, _get_valid_id_list(status_list, status),
                    tracker, held))

GetMilestones ==
    \E status \in StatusArgs :
        LET out == get_milestones(status)
        IN Did([op |-> "get_milestones", status |-> status],
               Outcome(out.rpc, out.result, tracker, held))

ProductArgs ==
    {[t |-> "int", v |-> 5], [t |-> "int", v |-> 6],
     [t |-> "str", v |-> "UBUNTU DESKTOP"]}
        \cup {[t |-> "Product", v |-> tracker.products[i]] :
                i \in DOMAIN tracker.products}

AddBuild ==
    \E product \in ProductArgs, version \in {"v1", "v2"},
       notify \in {[t |-> "bool", v |-> TRUE], [t |-> "str", v |-> "yes"]},
       ok \in BOOLEAN :
        /\ Len(tracker.builds) < MaxBuilds
        /\ Did([op |-> "add_build", product |-> product, version |-> version,
                notify |-> notify, ok |-> ok, before |-> tracker],
               add_build(tracker.milestones[1], product, version, notify, ok))

AddResult ==
    \E testcase \in 0..1,
       r \in {[t |-> "int", v |-> 3], [t |-> "str", v |-> "PASSED"],
              [t |-> "list", v |-> <<[t |-> "int", v |-> 1]>>]},
       bugs \in {EmptyDict, 1 :> 0, 1 :> 2},
       ok \in BOOLEAN :
        /\ Len(tracker.results) < MaxResults
        /\ Did([op |-> "add_result", testcase |-> testcase, result |-> r,
                bugs |-> bugs, ok |-> ok, before |-> tracker],
               add_result([id |-> 1], testcase, r, bugs, ok))

RebuildSave ==
    \E status \in {2}, ok \in BOOLEAN :
        Did([op |-> "Rebuild.save", status |-> status, ok |-> ok,
             before |-> tracker],
            Rebuild_save([id |-> tracker.rebuild.id, status |-> status], ok))

ResultDelete ==
    \E ok \in BOOLEAN :
        Did([op |-> "Result.delete", ok |-> ok, before |-> tracker,
             was |-> held],
            Result_delete(ok))

ResultSave ==
    \E ok \in BOOLEAN :
        Did([op |-> "Result.save", ok |-> ok, before |-> tracker,
             was |-> held],
            Result_save(ok))

\* a client that reads with status filters
NextFilter ==
    \/ QATracker__init__
    \/ GetValidIdList
    \/ GetMilestones
    \/ NextCall

\* a client that adds, saves and deletes
NextTracker ==
    \/ QATracker__init__
    \/ AddBuild
    \/ AddResult
    \/ RebuildSave
    \/ ResultDelete
    \/ ResultSave
    \/ NextCall

AccessLevels == {"admin", "user", "public", None}

\* what the server holds when the client connects
Trackers ==
    {[access |-> a,
      supersedes |-> s,
      milestones |-> <<[id |-> 1, status |-> m, title |-> "Focal Daily"],
                       [id |-> 2, status |-> 2, title |-> "Bionic Final"]>>,
      products |-> <<[id |-> 5, status |-> 0, title |-> "Ubuntu Desktop"],
                     [id |-> 6, status |-> 1, title |-> "Ubuntu Server"]>>,
      builds |-> b,
      results |-> <<[id |-> 2, buildid |-> 1, testcase |-> 1, result |-> 0,
                     status |-> 0]>>,
      rebuild |-> [id |-> 3, status |-> 0],
      nextid |-> 4] :
        a \in AccessLevels, s \in BOOLEAN, m \in {0, 1},
        b \in {<<>>, <<[id |-> 1, productid |-> 5, milestoneid |-> 1,
                       version |-> "v1", status |-> 0]>>}}

InitTracker ==
    /\ tracker \in Trackers
    /\ access = None
    /\ rpc = <<>>
    /\ held = [id |-> 2, result |-> 1, status |-> 0, deleted |-> FALSE]
    /\ configfile = None
    /\ config = EmptyDict
    /\ target = None
    /\ stdout = <<>>
    /\ tracker_products = None
    /\ tracker_milestones = None
    /\ pc = "new"
    /\ call = [op |-> "none"]
    /\ result = ReturnNone
    /\ yaml_data = <<>>
    /\ _data = <<>>
    /\ _defaults_series = EmptyDict
    /\ _development_series = None
    /\ _codename_to_series = EmptyDict
    /\ snap_data = EmptyDict
    /\ _data_txt = EmptyDict
    /\ fetched = EmptyDict
    /\ bug = EmptyDict
    /\ callbacks = <<>>

SpecTracker == InitTracker /\ [][NextTracker]_vars

SpecFilter == InitTracker /\ [][NextFilter]_vars

\* the entries of a status argument, a single entry standing for itself
EntriesOf(status) == IF status.t = "list" THEN status.v ELSE <<status>>

\* the entry is an integer: a bool is one in Python
IsInt(entry) == entry.t \in {"int", "bool"}

IntOf(entry) == IF entry.t = "bool" THEN (IF entry.v THEN 1 ELSE 0) ELSE entry.v

\* the entry names a status of the list or is a position in it
Recognized(status_list, entry) ==
    \/ IsInt(entry) /\ 0 <= IntOf(entry) /\ IntOf(entry) < Len(status_list)
    \/ entry.t = "str"
        /\ \E i \in DOMAIN status_list : lower(status_list[i]) = lower(entry.v)

\* the position, counted from 0, a recognized entry stands for
PositionOf(status_list, entry) ==
    IF IsInt(entry) THEN IntOf(entry)
    ELSE (CHOOSE i \in DOMAIN status_list :
                lower(status_list[i]) = lower(entry.v)) - 1

\* an out-of-range integer or an unrecognized name
Unrecognized(status_list, entry) ==
    (IsInt(entry) \/ entry.t = "str") /\ ~Recognized(status_list, entry)

\* C14: _get_valid_id_list maps a status name, whatever its case, to its
\* position in the status list and a position in range to itself, and
\* returns for a list of such entries their positions without duplicates;
\* an out-of-range integer or an unrecognized name, alone or anywhere in a
\* list, raises IndexError (TypeError when an entry of another type comes
\* before it), and get_milestones then makes no remote call.
C14_StatusFilterResolved ==
    (pc = "returned" /\ call.op \in {"_get_valid_id_list", "get_milestones"}) =>
        LET status_list == IF call.op = "get_milestones"
                           THEN qatracker_milestone_status
                           ELSE call.status_list
            entries == EntriesOf(call.status)
            All(P(_, _)) == \A i \in DOMAIN entries : P(status_list, entries[i])
            Some(P(_, _)) == \E i \in DOMAIN entries : P(status_list, entries[i])
        IN /\ (call.op = "_get_valid_id_list" /\ All(Recognized)) =>
                /\ result.kind = "list"
                /\ {result.value[i] : i \in DOMAIN result.value}
                      = {PositionOf(status_list, entries[i]) : i \in DOMAIN entries}
                /\ \A i, j \in DOMAIN result.value :
                      i # j => result.value[i] # result.value[j]
           /\ Some(Unrecognized) =>
                /\ Raised(result)
                /\ result.exc \in {"IndexError", "TypeError"}
                /\ (\A i \in DOMAIN entries :
                        IsInt(entries[i]) \/ entries[i].t = "str")
                    => result.exc = "IndexError"
                /\ rpc = <<>>

\* ["tEsTiNg", 0, ...] resolved to the one position 0
C14_Witness ==
    /\ pc = "returned"
    /\ call.op = "_get_valid_id_list"
    /\ call.status = [t |-> "list", v |-> <<[t |-> "str", v |-> "tEsTiNg"],
                                            [t |-> "int", v |-> 0]>>]
    /\ result = Return("list", <<0>>)

\* get_milestones([0, "Bogus"]) raised and called nothing
C14_WitnessUnrecognized ==
    /\ pc = "returned"
    /\ call.op = "get_milestones"
    /\ call.status = [t |-> "list", v |-> <<[t |-> "int", v |-> 0],
                                            [t |-> "str", v |-> "Bogus"]>>]
    /\ result = Raise("IndexError")
    /\ rpc = <<>>

\* the access levels that may call the operation
Allowed(op) ==
    IF op \in {"add_build", "Rebuild.save"} THEN {"admin"}
    ELSE {"user", "admin"}

GatedOperations ==
    {"add_build", "Rebuild.save", "add_result", "Result.save", "Result.delete"}

\* the last operation made a mutating remote call
CalledMutating == \E i \in DOMAIN rpc : rpc[i] \in Mutating

Denied == result = Raise("Exception: Access denied")

\* C15 as stated: a gated operation makes its mutating call only at an
\* allowed access level, and at any other level raises permission-denied
\* before any remote call.
C15_GatedByAccess ==
    (pc = "returned" /\ call.op \in GatedOperations) =>
        /\ CalledMutating => access \in Allowed(call.op)
        /\ access \notin Allowed(call.op) => Denied /\ rpc = <<>>

\* C15: when the tracker reported an access level, add_build and
\* Rebuild.save make their mutating call only as 'admin', and add_result,
\* Result.save and Result.delete only as 'user' or 'admin'; at any other
\* reported level the operation raises before any remote call, with
\* permission-denied unless add_build is refused first for a milestone that
\* is not active.  When the tracker reported no access level (None), no
\* operation is denied by the client.
C15_GatedWhenAccessKnown ==
    (pc = "returned" /\ call.op \in GatedOperations) =>
        /\ access # None =>
            /\ CalledMutating => access \in Allowed(call.op)
            /\ access \notin Allowed(call.op) =>
                /\ Raised(result)
                /\ rpc = <<>>
                /\ tracker = call.before
                /\ Denied \/ (/\ call.op = "add_build"
                              /\ call.before.milestones[1].status # 0
                              /\ result = Raise("TypeError"))
        /\ access = None => ~Denied

\* a 'user' was denied add_build on an active milestone
C15_Witness ==
    /\ pc = "returned"
    /\ call.op = "add_build"
    /\ access = "user"
    /\ call.before.milestones[1].status = 0
    /\ Denied
    /\ rpc = <<>>

\* with no access level reported, add_result went to the server
C15_WitnessNoAccess ==
    /\ pc = "returned"
    /\ call.op = "add_result"
    /\ access = None
    /\ CalledMutating

\* C16: after a successful mutating call the client returns the record that
\* call created: add_build the build the server stored for this call, not
\* None and not a build the milestone already had, and add_result the
\* result the server stored for this call.
C16_ReturnsCreatedRecord ==
    /\ (pc = "returned" /\ call.op = "add_build" /\ CalledMutating
            /\ call.ok) =>
            /\ result.kind = "entry"
            /\ result.value.id = call.before.nextid
            /\ \A i \in DOMAIN call.before.builds :
                    call.before.builds[i].id # result.value.id
    /\ (pc = "returned" /\ call.op = "add_result" /\ CalledMutating
            /\ ~Raised(result)) =>
            /\ result.kind = "entry"
            /\ result.value.id = call.before.nextid
            /\ \A i \in DOMAIN call.before.results :
                    call.before.results[i].id # result.value.id

(***************************************************************************)
(* ubuntu-archive-tools/sru_workflow.py.  `bug` is the Launchpad bug:      *)
(* its tasks in order, its tags as the list launchpadlib hands out, its    *)
(* subscribers and the subjects of its messages.  The self_link of a       *)
(* task's target is the sequence of its path segments after the root uri:  *)
(* <<"ubuntu", "focal", "+source", "foo">> is                              *)
(* <root>/ubuntu/focal/+source/foo.                                        *)
(***************************************************************************)
\* bug_target_re.search(self_link), lines 25-26 and 34: the leftmost match
\* of /ubuntu/(suite/)?+source/(source) that ends the link
bug_target_re(link) ==
    LET n == Len(link)
    IN IF n >= 4 /\ link[n - 3] = "ubuntu" /\ link[n - 1] = "+source"
       THEN [matched |-> TRUE, suite |-> link[n - 2], source |-> link[n]]
       ELSE IF n >= 3 /\ link[n - 2] = "ubuntu" /\ link[n - 1] = "+source"
            THEN [matched |-> TRUE, suite |-> None, source |-> link[n]]
            ELSE [matched |-> FALSE]

\* 'linux' in sourcepkg, on the package names the model uses
ContainsLinux(sourcepkg) == sourcepkg \in {"linux", "linux-hwe"}

\* the task is one the loop of lines 30-49 does not ignore
Considered(task, sourcepkg) ==
    LET match == bug_target_re(task.target)
    IN match.matched /\ ~(Truthy(sourcepkg) /\ match.source # sourcepkg)

\* a loop that leaves a task that is Invalid, Won't Fix or Fix Released alone
MarkTasks_KeepClosed(tasks, sourcepkg, release) ==
    [i \in DOMAIN tasks |->
        IF Considered(tasks[i], sourcepkg)
           /\ bug_target_re(tasks[i].target).suite = release
           /\ tasks[i].status \notin {"Invalid", "Won't Fix", "Fix Released"}
        THEN [tasks[i] EXCEPT !.status = "Fix Committed"]
        ELSE tasks[i]]

\* lines 30-49: the tasks after the loop
MarkTasks(tasks, sourcepkg, release) ==
    [i \in DOMAIN tasks |->
        IF Considered(tasks[i], sourcepkg)
           /\ bug_target_re(tasks[i].target).suite = release
        THEN [tasks[i] EXCEPT !.status = "Fix Committed"]
        ELSE tasks[i]]

sourcepkg_match(tasks, sourcepkg) ==
    \E i \in DOMAIN tasks : Considered(tasks[i], sourcepkg)

distroseries_match(tasks, sourcepkg, release) ==
    \E i \in DOMAIN tasks :
        /\ Considered(tasks[i], sourcepkg)
        /\ bug_target_re(tasks[i].target).suite = release

\* a release task added whenever a task matched the source package
AddTask_Again(tasks, before, sourcepkg, release) ==
    IF sourcepkg_match(before, sourcepkg)
    THEN Append(tasks, [target |-> <<"ubuntu", release, "+source", sourcepkg>>,
                        status |-> "Fix Committed"])
    ELSE tasks

\* lines 51-59: the release task added when none matched
AddTask(tasks, before, sourcepkg, release) ==
    IF sourcepkg_match(before, sourcepkg)
       /\ ~distroseries_match(before, sourcepkg, release)
    THEN Append(tasks, [target |-> <<"ubuntu", release, "+source", sourcepkg>>,
                        status |-> "Fix Committed"])
    ELSE tasks

\* list.remove(t): the list without the first t
Remove(seq, t) ==
    LET i == CHOOSE k \in DOMAIN seq :
                seq[k] = t /\ \A j \in 1..(k - 1) : seq[j] # t
    IN SubSeq(seq, 1, i - 1) \o SubSeq(seq, i + 1, Len(seq))

RECURSIVE RemoveStale(_, _, _)
\* lines 87-92: the stale tags i.. taken out of btags
RemoveStale(btags, stale, i) ==
    IF i > Len(stale) THEN btags
    ELSE IF InSeq(stale[i], btags)
         THEN RemoveStale(Remove(btags, stale[i]), stale, i + 1)
         ELSE RemoveStale(btags, stale, i + 1)

\* an append that does not look whether the tag is there
AppendMissing_Always(btags, tag) == Append(btags, tag)

\* lines 94-101: append the tag unless the list has it
AppendMissing(btags, tag) ==
    IF InSeq(tag, btags) THEN btags ELSE Append(btags, tag)

\* the tags named after a release: 'verification-done-%s' % release
ReleaseTag(prefix, release) ==
    CASE release = "focal" ->
            (CASE prefix = "verification-failed" -> "verification-failed-focal"
               [] prefix = "verification-done" -> "verification-done-focal"
               [] prefix = "verification-needed" -> "verification-needed-focal")
      [] release = "bionic" ->
            (CASE prefix = "verification-failed" -> "verification-failed-bionic"
               [] prefix = "verification-done" -> "verification-done-bionic"
               [] prefix = "verification-needed" -> "verification-needed-bionic")

\* lines 76-103: the tags the bug is saved with
UpdateTags(tags, sourcepkg, release) ==
    IF ~Truthy(sourcepkg) \/ ~ContainsLinux(sourcepkg)
    THEN LET stale == <<"verification-failed",
                        ReleaseTag("verification-failed", release),
                        "verification-done",
                        ReleaseTag("verification-done", release)>>
             kept == RemoveStale(tags, stale, 1)
         IN AppendMissing(AppendMissing(kept, "verification-needed"),
                          ReleaseTag("verification-needed", release))
    ELSE tags

\* a process_bug that comments only when a task matched
process_bug_Quiet(b, sourcepkg, release) ==
    [b EXCEPT
        !.tasks = AddTask(MarkTasks(b.tasks, sourcepkg, release), b.tasks,
                          sourcepkg, release),
        !.subscribers = @ \cup {"ubuntu-sru", "sru-verification"},
        !.tags = UpdateTags(b.tags, sourcepkg, release),
        !.messages = IF sourcepkg_match(b.tasks, sourcepkg)
                     THEN Append(@, "Please test proposed package") ELSE @]

\* process_bug(launchpad, sourcepkg, version, release, num) on the bug b
process_bug(b, sourcepkg, release) ==
    [b EXCEPT
        !.tasks = AddTask(MarkTasks(b.tasks, sourcepkg, release), b.tasks,
                          sourcepkg, release),
        !.subscribers = @ \cup {"ubuntu-sru", "sru-verification"},
        !.tags = UpdateTags(b.tags, sourcepkg, release),
        !.messages = Append(@, "Please test proposed package")]

MaxRuns == 2

\* how many times process_bug has run on the bug
Runs == IF call.op = "process_bug" THEN call.nth ELSE 0

ProcessBug ==
    \E sourcepkg \in {"foo", "linux", None}, release \in {"focal", "bionic"} :
        /\ pc = "sru"
        /\ Runs < MaxRuns
        /\ bug' = process_bug(bug, sourcepkg, release)
        /\ call' = [op |-> "process_bug", sourcepkg |-> sourcepkg,
                    release |-> release, before |-> bug, nth |-> Runs + 1,
                    prev |-> IF Runs = 0 THEN [op |-> "none"]
                             ELSE [op |-> "process_bug",
                                   sourcepkg |-> call.sourcepkg,
                                   release |-> call.release,
                                   before |-> call.before]]
        /\ result' = ReturnNone
        /\ UNCHANGED <<pc, yaml_data, ks_vars, snap_data, loader_vars, iso_vars, qa_vars,
                       callbacks>>

NextSru == ProcessBug

MaxTasks == 2

\* the tasks a bug may have
Tasks ==
    {[target |-> <<"ubuntu", "+source", "foo">>, status |-> "New"],
     [target |-> <<"ubuntu", "focal", "+source", "foo">>, status |-> "New"],
     [target |-> <<"ubuntu", "focal", "+source", "foo">>,
      status |-> "Fix Released"],
     [target |-> <<"ubuntu", "bionic", "+source", "foo">>, status |-> "Invalid"],
     [target |-> <<"ubuntu", "focal", "+source", "bar">>, status |-> "New"],
     [target |-> <<"debian", "+source", "foo">>, status |-> "Confirmed"],
     [target |-> <<"foo">>, status |-> "New"]}

\* the tags of `all` that are in `chosen`, in the order of `all`
InOrder(all, chosen) == SelectSeq(all, LAMBDA t : t \in chosen)

TagNames ==
    <<"block-proposed-focal", "regression-update", "verification-done",
      "verification-done-focal", "verification-failed",
      "verification-failed-focal", "verification-needed",
      "verification-needed-focal">>

\* the bugs before process_bug runs: Launchpad lists each tag once
Bugs ==
    {[title |-> <<"foo crashes">>, tasks |-> tasks, tags |-> tags,
      subscribers |-> {"ubuntu-sponsors"}, messages |-> <<>>] :
        tasks \in SeqsUpTo(Tasks, MaxTasks),
        tags \in {<<>>, <<"regression-update", "verification-done">>}}
    \cup
    {[title |-> <<"foo crashes">>,
      tasks |-> <<[target |-> <<"ubuntu", "+source", "foo">>,
                   status |-> "New"]>>,
      tags |-> InOrder(TagNames, chosen),
      subscribers |-> {}, messages |-> <<>>] :
        chosen \in SUBSET {TagNames[i] : i \in DOMAIN TagNames}}

InitSru ==
    /\ bug \in Bugs
    /\ pc = "sru"
    /\ callbacks = <<>>
    /\ call = [op |-> "none"]
    /\ result = ReturnNone
    /\ yaml_data = <<>>
    /\ _data = <<>>
    /\ _defaults_series = EmptyDict
    /\ _development_series = None
    /\ _codename_to_series = EmptyDict
    /\ snap_data = EmptyDict
    /\ _data_txt = EmptyDict
    /\ fetched = EmptyDict
    /\ access = None
    /\ tracker = EmptyDict
    /\ rpc = <<>>
    /\ held = EmptyDict
    /\ configfile = None
    /\ config = EmptyDict
    /\ target = None
    /\ stdout = <<>>
    /\ tracker_products = None
    /\ tracker_milestones = None

SpecSru == InitSru /\ [][NextSru]_vars

\* the task targets the source package in the release, in Ubuntu
Targets(task, sourcepkg, release) ==
    task.target = <<"ubuntu", release, "+source", sourcepkg>>

\* the task targets the source package in Ubuntu, in a release or in none
TargetsPackage(task, sourcepkg) ==
    \/ task.target = <<"ubuntu", "+source", sourcepkg>>
    \/ \E release \in {"focal", "bionic"} : Targets(task, sourcepkg, release)

\* process_bug has run with a source package
Processed == call.op = "process_bug" /\ Truthy(call.sourcepkg)

\* C17: after process_bug(sourcepkg, release) every task of the bug that
\* targets the source package in the release is Fix Committed whatever it
\* was, every other task the bug had keeps its status, and one new task for
\* the source package in the release, Fix Committed, is there exactly when
\* some task targeted the source package and none targeted it in the
\* release.
C17_TasksFixCommitted ==
    Processed =>
        LET before == call.before.tasks
            created ==
                /\ (\E i \in DOMAIN before :
                        TargetsPackage(before[i], call.sourcepkg))
                /\ (\A i \in DOMAIN before :
                        ~Targets(before[i], call.sourcepkg, call.release))
        IN /\ \A i \in DOMAIN bug.tasks :
                Targets(bug.tasks[i], call.sourcepkg, call.release)
                    => bug.tasks[i].status = "Fix Committed"
           /\ \A i \in DOMAIN before :
                /\ bug.tasks[i].target = before[i].target
                /\ ~Targets(before[i], call.sourcepkg, call.release)
                    => bug.tasks[i].status = before[i].status
           /\ Len(bug.tasks) = Len(before) + (IF created THEN 1 ELSE 0)
           /\ created =>
                bug.tasks[Len(bug.tasks)] =
                    [target |-> <<"ubuntu", call.release, "+source",
                                  call.sourcepkg>>,
                     status |-> "Fix Committed"]

\* a Fix Released task of foo in focal was switched, the task of bar kept
C17_Witness ==
    /\ Processed
    /\ call.sourcepkg = "foo" /\ call.release = "focal"
    /\ call.before.tasks =
          <<[target |-> <<"ubuntu", "focal", "+source", "foo">>,
             status |-> "Fix Released"],
            [target |-> <<"ubuntu", "focal", "+source", "bar">>,
             status |-> "New"]>>
    /\ bug.tasks[1].status = "Fix Committed"
    /\ bug.tasks[2].status = "New"
    /\ Len(bug.tasks) = 2

\* a focal task was created beside the package's distribution task
C17_WitnessCreated ==
    /\ Processed
    /\ call.sourcepkg = "foo" /\ call.release = "focal"
    /\ call.before.tasks = <<[target |-> <<"ubuntu", "+source", "foo">>,
                              status |-> "New"]>>
    /\ Len(bug.tasks) = 2
    /\ bug.tasks[2].status = "Fix Committed"

\* the tags of a list, as a set
TagSet(tags) == {tags[i] : i \in DOMAIN tags}

\* C18: after process_bug on a source package whose name does not contain
\* 'linux' the tags are those the bug had, less verification-failed,
\* verification-failed-<release>, verification-done and
\* verification-done-<release>, with verification-needed and
\* verification-needed-<release>; no tag is listed twice.
C18_TagsUpdated ==
    (Processed /\ ~ContainsLinux(call.sourcepkg)) =>
        LET stale == {"verification-failed", "verification-done",
                      ReleaseTag("verification-failed", call.release),
                      ReleaseTag("verification-done", call.release)}
            needed == {"verification-needed",
                       ReleaseTag("verification-needed", call.release)}
        IN /\ TagSet(bug.tags) = (TagSet(call.before.tags) \ stale) \cup needed
           /\ \A i, j \in DOMAIN bug.tags :
                i # j => bug.tags[i] # bug.tags[j]

\* stale tags went, verification-needed was there and is there once
C18_Witness ==
    /\ Processed
    /\ call.sourcepkg = "foo" /\ call.release = "focal"
    /\ call.before.tags = <<"regression-update", "verification-done",
                            "verification-done-focal", "verification-needed">>
    /\ bug.tags = <<"regression-update", "verification-needed",
                    "verification-needed-focal">>

\* a plain verification-failed tag went with the release's own
C18_WitnessFailed ==
    /\ Processed
    /\ call.sourcepkg = "foo" /\ call.release = "focal"
    /\ call.before.tags = <<"verification-failed",
                            "verification-failed-focal">>
    /\ bug.tags = <<"verification-needed", "verification-needed-focal">>

\* the comments process_bug posts
Comments == SelectSeq(bug.messages,
                      LAMBDA subject : subject = "Please test proposed package")

\* C19: every run of process_bug posts one 'Please test proposed package'
\* comment, whether or not a task matched: after n runs on the bug there
\* are n of them.
C19_OneCommentPerRun ==
    /\ pc = "sru" => Len(Comments) = Runs
    /\ call.op = "process_bug" =>
            bug.messages = Append(call.before.messages,
                                  "Please test proposed package")

\* the second run on a bug none of whose tasks matched left two comments
C19_Witness ==
    /\ call.op = "process_bug"
    /\ call.nth = 2
    /\ ~sourcepkg_match(call.before.tasks, call.sourcepkg)
    /\ Len(call.before.tasks) > 0
    /\ Len(Comments) = 2

(***************************************************************************)
(* ubuntu-archive-tools/kernel_workflow.py.  A bug title is the sequence   *)
(* of its pieces, <<"focal/", "linux", ": ", "5.4.0-42.46",                *)
(* " -proposed tracker">>; str(task.target) is the sequence of the path    *)
(* segments after the root uri.  `callbacks` lists the callbacks one run   *)
(* of process_sru_bug invoked, in order.                                   *)
(***************************************************************************)
\* [a-z0-9.-]+ on the names the model uses
IsName(s) ==
    s \in {"linux", "linux-hwe", "linux-meta", "focal", "bionic", "nvidia"}

\* [0-9.-]+[0-9a-z.~-]* on the versions the model uses
IsVersion(s) == s \in {"5.4.0-42.46", "4.15.0-112.113~16.04.1"}

\* [a-z]+\/ on the prefixes the model uses
IsPrefix(s) == s \in {"focal/", "bionic/"}

\* get_name_and_version_from_bug(bug), lines 28-40
get_name_and_version_from_bug(b) ==
    LET title == b.title
        n == Len(title)
    IN IF /\ n \in {4, 5}
          /\ n = 5 => IsPrefix(title[1])
          /\ IsName(title[n - 3])
          /\ title[n - 2] = ": "
          /\ IsVersion(title[n - 1])
          /\ title[n] = " -proposed tracker"
       THEN [package |-> title[n - 3], version |-> title[n - 1]]
       ELSE [package |-> None, version |-> None]

RECURSIVE Joined(_)
\* '/'.join(pieces): the text of a link from the pieces of its path
Joined(pieces) ==
    IF Len(pieces) = 0 THEN ""
    ELSE IF Len(pieces) = 1 THEN pieces[1]
    ELSE pieces[1] \o "/" \o Joined(Tail(pieces))

\* workflow_re.search(str(task.target)), lines 50-51: the pattern has no
\* end anchor, so the subtask is all that follows 'kernel-sru-workflow/'
workflow_re(task_target) ==
    IF Len(task_target) >= 2 /\ task_target[1] = "kernel-sru-workflow"
    THEN [matched |-> TRUE, subtask |-> Joined(Tail(task_target))]
    ELSE [matched |-> FALSE]

\* the positions of `subtask` where 'prepare-package' starts
PrepareAt(subtask) ==
    {i \in 1..(Len(subtask) - 14) :
        SubSeq(subtask, i, i + 14) = "prepare-package"}

\* prep_re.search(subtask), line 52: all that follows the first
\* 'prepare-package' of the subtask
prep_re(subtask) ==
    IF PrepareAt(subtask) = {} THEN [matched |-> FALSE]
    ELSE [matched |-> TRUE,
          subpackage |-> SubSeq(subtask,
                                15 + (CHOOSE i \in PrepareAt(subtask) :
                                        \A j \in PrepareAt(subtask) : i <= j),
                                Len(subtask))]

\* package_re.search(str(task.target)), lines 47-49
package_re(task_target) ==
    IF /\ Len(task_target) = 4
       /\ task_target[1] = "ubuntu"
       /\ IsName(task_target[2])
       /\ task_target[3] = "+source"
       /\ IsName(task_target[4])
    THEN [matched |-> TRUE, release |-> task_target[2], package |-> task_target[4]]
    ELSE [matched |-> FALSE]

\* what the task callback of the caller returns for a task
task_callback(task) == task.target :> task.status

\* the state of the loop of lines 65-88 before any task
LoopStart ==
    [log |-> <<>>, task_results |-> EmptyDict, packages |-> <<>>,
     source_name |-> None, release |-> None]

\* a loop body that hands Invalid tasks to the callback too
LoopBody_AllTasks(s, task) ==
    LET called == [s EXCEPT
                    !.log = Append(@, [cb |-> "task_callback", task |-> task]),
                    !.task_results = Update(@, task_callback(task))]
        task_match == workflow_re(task.target)
        prep_match == prep_re(task_match.subtask)
        prepared == IF task_match.matched /\ prep_match.matched
                    THEN [called EXCEPT
                            !.packages = Append(@, prep_match.subpackage)]
                    ELSE called
        pkg_match == package_re(task.target)
    IN IF pkg_match.matched /\ ~Truthy(prepared.source_name)
       THEN [prepared EXCEPT !.source_name = pkg_match.package,
                             !.release = pkg_match.release]
       ELSE prepared

\* lines 66-88: one task of the loop
LoopBody(s, task) ==
    IF task.status = "Invalid" THEN s
    ELSE
    LET called == [s EXCEPT
                    !.log = Append(@, [cb |-> "task_callback", task |-> task]),
                    !.task_results = Update(@, task_callback(task))]
        task_match == workflow_re(task.target)
        prep_match == prep_re(task_match.subtask)
        prepared == IF task_match.matched /\ prep_match.matched
                    THEN [called EXCEPT
                            !.packages = Append(@, prep_match.subpackage)]
                    ELSE called
        pkg_match == package_re(task.target)
    IN IF pkg_match.matched /\ ~Truthy(prepared.source_name)
       THEN [prepared EXCEPT !.source_name = pkg_match.package,
                             !.release = pkg_match.release]
       ELSE prepared

RECURSIVE Loop(_, _, _)
\* lines 65-88: the tasks i.. of the bug
Loop(tasks, i, s) ==
    IF i > Len(tasks) THEN s ELSE Loop(tasks, i + 1, LoopBody(s, tasks[i]))

\* lines 113-120 without the substitution of the two legacy suffixes
real_package_NoTable(package, pkg) ==
    CASE package = "linux" -> <<"linux", pkg>>
      [] package = "linux-hwe" -> <<"linux", pkg, "-hwe">>
      [] package = "linux-meta" -> <<"linux", pkg, "-meta">>
      [] OTHER -> <<package>>

\* lines 113-120: re.sub(r'^linux', 'linux' + pkg, package), as the pieces
\* of the name
real_package(package, pkg) ==
    LET suffix == IF pkg = "-lbm" THEN "-backports-modules-3.2.0"
                  ELSE IF pkg = "-lrm" THEN "-restricted-modules" ELSE pkg
    IN CASE package = "linux" -> <<"linux", suffix>>
         [] package = "linux-hwe" -> <<"linux", suffix, "-hwe">>
         [] package = "linux-meta" -> <<"linux", suffix, "-meta">>
         [] OTHER -> <<package>>

\* response.strip().lower().startswith('y') on the answers the model uses
SaysYes(response) == response \in {"y", "Yes"}

\* process_sru_bug(lp, bugnum, task_callback, source_callback, context) on
\* the bug b; response is the line read from stdin when one is asked for
process_sru_bug(b, context, response) ==
    LET title == get_name_and_version_from_bug(b)
        package == title.package
        s == Loop(b.tasks, 1, LoopStart)
        packages == s.packages
        full_packages == [i \in DOMAIN packages |->
                            real_package(package, packages[i])]
    IN IF ~Truthy(package) \/ ~Truthy(title.version)
       THEN [log |-> <<>>, result |-> ReturnNone]
       ELSE IF ~Truthy(s.source_name)
       THEN [log |-> s.log, result |-> ReturnNone]
       ELSE IF s.source_name # package /\ context.t = "none"
       THEN [log |-> s.log, result |-> Raise("TypeError")]
       ELSE IF s.source_name # package /\ context.v["skipnamecheck"]
       THEN [log |-> s.log, result |-> ReturnNone]
       ELSE IF Len(packages) = 0
       THEN [log |-> s.log, result |-> ReturnNone]
       ELSE IF ~InSeq("", packages) /\ ~SaysYes(response)
       THEN [log |-> s.log, result |-> ReturnNone]
       ELSE [log |-> Append(s.log,
                        [cb |-> "source_callback",
                         task_results |-> s.task_results,
                         full_packages |-> full_packages,
                         release |-> s.release]),
             result |-> ReturnNone]

ProcessSruBug ==
    \E context \in {[t |-> "none"]}
                     \cup {[t |-> "dict", v |-> "skipnamecheck" :> skip] :
                            skip \in BOOLEAN},
       response \in {"y", "n"} :
        LET done == process_sru_bug(bug, context, response)
        IN /\ pc = "kernel"
           /\ pc' = "processed"
           /\ call' = [op |-> "process_sru_bug", context |-> context,
                       response |-> response, before |-> bug]
           /\ callbacks' = done.log
           /\ result' = done.result
           /\ UNCHANGED <<bug, yaml_data, ks_vars, snap_data, loader_vars, iso_vars,
                          qa_vars>>

NextKernel == ProcessSruBug

MaxKernelTasks == 3

KernelTasks ==
    {[target |-> <<"kernel-sru-workflow">>, status |-> "In Progress"],
     [target |-> <<"kernel-sru-workflow", "prepare-package">>,
      status |-> "Fix Released"],
     [target |-> <<"kernel-sru-workflow", "prepare-package-meta">>,
      status |-> "Fix Released"],
     [target |-> <<"kernel-sru-workflow", "prepare-package-lbm">>,
      status |-> "Invalid"],
     [target |-> <<"kernel-sru-workflow", "prepare-package-lbm">>,
      status |-> "Fix Committed"],
     [target |-> <<"kernel-sru-workflow", "prepare-package-lrm">>,
      status |-> "New"],
     [target |-> <<"kernel-sru-workflow", "promote-to-proposed">>,
      status |-> "Confirmed"],
     [target |-> <<"ubuntu", "focal", "+source", "linux">>, status |-> "New"],
     [target |-> <<"ubuntu", "focal", "+source", "linux">>,
      status |-> "Invalid"],
     [target |-> <<"ubuntu", "bionic", "+source", "linux-hwe">>,
      status |-> "New"]}

Titles ==
    {<<"linux", ": ", "5.4.0-42.46", " -proposed tracker">>,
     <<"focal/", "linux", ": ", "5.4.0-42.46", " -proposed tracker">>,
     <<"linux-hwe", ": ", "4.15.0-112.113~16.04.1", " -proposed tracker">>,
     <<"linux", ": ", "v5.4", " -proposed tracker">>,
     <<"linux crashes on boot">>}

KernelBugs ==
    {[title |-> title, tasks |-> tasks, tags |-> <<>>, subscribers |-> {},
      messages |-> <<>>] :
        title \in Titles, tasks \in SeqsUpTo(KernelTasks, MaxKernelTasks)}

InitKernel ==
    /\ bug \in KernelBugs
    /\ pc = "kernel"
    /\ callbacks = <<>>
    /\ call = [op |-> "none"]
    /\ result = ReturnNone
    /\ yaml_data = <<>>
    /\ _data = <<>>
    /\ _defaults_series = EmptyDict
    /\ _development_series = None
    /\ _codename_to_series = EmptyDict
    /\ snap_data = EmptyDict
    /\ _data_txt = EmptyDict
    /\ fetched = EmptyDict
    /\ access = None
    /\ tracker = EmptyDict
    /\ rpc = <<>>
    /\ held = EmptyDict
    /\ configfile = None
    /\ config = EmptyDict
    /\ target = None
    /\ stdout = <<>>
    /\ tracker_products = None
    /\ tracker_milestones = None

SpecKernel == InitKernel /\ [][NextKernel]_vars

\* the tasks of the bug that are not Invalid, in task order
Valid(tasks) == SelectSeq(tasks, LAMBDA task : task.status # "Invalid")

\* the title is that of a tracker: <series>/<package>: <version> -proposed
\* tracker, the series being optional
TrackerTitle(title) ==
    /\ title[Len(title)] = " -proposed tracker"
    /\ Len(title) \in {4, 5}
    /\ title[Len(title) - 1] \in {"5.4.0-42.46", "4.15.0-112.113~16.04.1"}

\* C20: process_sru_bug changes nothing on the bug or its tasks; it invokes
\* task_callback once for each task that is not Invalid, in task order, and
\* for no Invalid task, and source_callback at most once and after every
\* task_callback; when the title is not a tracker title it invokes nothing.
C20_OnlyCallbacks ==
    pc = "processed" =>
        LET valid == Valid(bug.tasks)
            tasks_called == SelectSeq(callbacks,
                                LAMBDA c : c.cb = "task_callback")
        IN /\ bug = call.before
           /\ ~TrackerTitle(bug.title) => callbacks = <<>>
           /\ TrackerTitle(bug.title) =>
                /\ Len(tasks_called) = Len(valid)
                /\ \A i \in DOMAIN valid :
                        callbacks[i] = [cb |-> "task_callback", task |-> valid[i]]
           /\ \A i \in DOMAIN callbacks :
                callbacks[i].cb = "source_callback" => i = Len(callbacks)
           /\ Len(callbacks) <= Len(valid) + 1

\* two task callbacks, the Invalid task skipped, then the source callback
C20_Witness ==
    /\ pc = "processed"
    /\ Len(bug.tasks) = 3
    /\ bug.tasks[2].status = "Invalid"
    /\ Len(callbacks) = 3
    /\ callbacks[1].cb = "task_callback" /\ callbacks[1].task = bug.tasks[1]
    /\ callbacks[2].cb = "task_callback" /\ callbacks[2].task = bug.tasks[3]
    /\ callbacks[3].cb = "source_callback"

\* a bug whose title is no tracker title got no callback
C20_WitnessIgnored ==
    /\ pc = "processed"
    /\ bug.title = <<"linux crashes on boot">>
    /\ Len(Valid(bug.tasks)) > 0
    /\ callbacks = <<>>

\* the suffix a workflow sub-task named 'prepare-package<suffix>' carries
SuffixOf(task_target) ==
    CASE task_target[2] = "prepare-package" -> ""
      [] task_target[2] = "prepare-package-meta" -> "-meta"
      [] task_target[2] = "prepare-package-signed" -> "-signed"
      [] task_target[2] = "prepare-package-lbm" -> "-lbm"
      [] task_target[2] = "prepare-package-lrm" -> "-lrm"

\* the task is a workflow sub-task named 'prepare-package<suffix>'
IsPrepare(task) ==
    /\ Len(task.target) = 2
    /\ task.target[1] = "kernel-sru-workflow"
    /\ task.target[2] \in {"prepare-package", "prepare-package-meta",
                           "prepare-package-signed", "prepare-package-lbm",
                           "prepare-package-lrm"}

\* the suffix after the substitution of the two legacy suffixes
Legacy(suffix) ==
    CASE suffix = "-lbm" -> "-backports-modules-3.2.0"
      [] suffix = "-lrm" -> "-restricted-modules"
      [] OTHER -> suffix

\* the package of the title with its leading 'linux' replaced by
\* 'linux' + suffix, as the pieces of the name
Renamed(package, suffix) ==
    CASE package = "linux" -> <<"linux", suffix>>
      [] package = "linux-hwe" -> <<"linux", suffix, "-hwe">>
      [] package = "linux-meta" -> <<"linux", suffix, "-meta">>

\* the source callback was invoked by the run
SourceCalled ==
    /\ pc = "processed"
    /\ Len(callbacks) > 0
    /\ callbacks[Len(callbacks)].cb = "source_callback"

\* C21: the names process_sru_bug passes to source_callback are one per task
\* that is not Invalid and is a workflow sub-task 'prepare-package<suffix>',
\* in task order, each the package of the title with its leading 'linux'
\* replaced by 'linux' + suffix, '-lbm' standing for
\* '-backports-modules-3.2.0' and '-lrm' for '-restricted-modules'.
C21_FullPackages ==
    SourceCalled =>
        LET prepare == SelectSeq(Valid(bug.tasks), IsPrepare)
            package == bug.title[Len(bug.title) - 3]
            names == callbacks[Len(callbacks)].full_packages
        IN /\ Len(names) = Len(prepare)
           /\ \A i \in DOMAIN prepare :
                names[i] = Renamed(package, Legacy(SuffixOf(prepare[i].target)))

\* a legacy suffix and the kernel package itself were both passed on
C21_Witness ==
    /\ SourceCalled
    /\ Len(callbacks[Len(callbacks)].full_packages) = 2
    /\ callbacks[Len(callbacks)].full_packages[1] = <<"linux", "">>
    /\ callbacks[Len(callbacks)].full_packages[2]
            = <<"linux", "-backports-modules-3.2.0">>

\* an Invalid prepare task gave no name
C21_WitnessInvalid ==
    /\ SourceCalled
    /\ \E i \in DOMAIN bug.tasks :
            IsPrepare(bug.tasks[i]) /\ bug.tasks[i].status = "Invalid"
    /\ Len(callbacks[Len(callbacks)].full_packages) = 1

\* the tracker of linux-hwe passed on linux-meta-hwe
C21_WitnessHwe ==
    /\ SourceCalled
    /\ bug.title[Len(bug.title) - 3] = "linux-hwe"
    /\ callbacks[Len(callbacks)].full_packages
            = <<(<<"linux", "-meta", "-hwe">>)>>

\* the tasks of the bug that are not Invalid and target a source package
\* ubuntu/<release>/+source/<package>
SourceTasks(tasks) ==
    SelectSeq(Valid(tasks), LAMBDA task : package_re(task.target).matched)

\* C27: process_sru_bug ignores a bug with too many source packages: when
\* more than one task that is not Invalid targets a source package,
\* source_callback is not invoked.
C27_TooManySourcesIgnored ==
    pc = "processed" /\ Len(SourceTasks(bug.tasks)) > 1 =>
        \A i \in DOMAIN callbacks : callbacks[i].cb # "source_callback"

(***************************************************************************)
(* ubuntu-archive-tools/isotracker.py.  The facade reads its configuration *)
(* file, connects a QATracker and keeps the products and milestones the    *)
(* tracker listed at that moment.                                          *)
(***************************************************************************)
\* a default argument status=<status list>: every name of the list
DefaultStatus(status_list) ==
    [t |-> "list",
     v |-> [i \in DOMAIN status_list |-> [t |-> "str", v |-> status_list[i]]]]

\* lines 73-74: "Couldn't find a '%s' target, using the default." % target
CouldntFind(section) ==
    "Couldn't find a '" \o section \o "' target, using the default."

\* ISOTracker.__init__(target), lines 44-80; the file's [general] section
\* holds url, username and password.  The object whose construction failed
\* is never seen, so its target is not kept.
ISOTracker__init__ ==
    \E section \in {None, "localized", "daily"} :
        LET products == get_products(DefaultStatus(qatracker_product_status))
            milestones ==
                get_milestones(DefaultStatus(qatracker_milestone_status))
        IN /\ pc = "new"
           /\ call' = [op |-> "ISOTracker", target |-> section]
           /\ IF ~configfile
              THEN /\ pc' = "failed"
                   /\ result' = Raise("NoConfigurationError")
                   /\ UNCHANGED <<access, rpc, target, tracker_products,
                                  tracker_milestones, stdout>>
              ELSE /\ pc' = "ready"
                   /\ result' = ReturnNone
                   /\ target' = section
                   /\ stdout' = IF Truthy(section) /\ section \notin DOMAIN config
                                THEN Append(stdout, CouldntFind(section))
                                ELSE stdout
                   /\ access' = tracker.access
                   /\ rpc' = <<"system.listMethods", "get_access">>
                                \o products.rpc \o milestones.rpc
                   /\ tracker_products' = products.result.value
                   /\ tracker_milestones' = milestones.result.value
           /\ UNCHANGED <<yaml_data, ks_vars, snap_data, loader_vars, lp_vars,
                          tracker, held, configfile, config>>

\* a lookup that compares the titles as they are written
get_product_by_name_Exact(product) ==
    LET found == FirstOf(tracker_products,
                         {i \in DOMAIN tracker_products :
                            tracker_products[i].title = product})
    IN IF found.kind = "none" THEN Raise("KeyError") ELSE found

\* ISOTracker.get_product_by_name(product), lines 112-121
get_product_by_name(product) ==
    LET found == FirstOf(tracker_products,
                         {i \in DOMAIN tracker_products :
                            lower(tracker_products[i].title) = lower(product)})
    IN IF found.kind = "none" THEN Raise("KeyError") ELSE found

\* ISOTracker.get_milestone_by_name(milestone), lines 123-132
get_milestone_by_name(milestone) ==
    LET found == FirstOf(tracker_milestones,
                         {i \in DOMAIN tracker_milestones :
                            lower(tracker_milestones[i].title)
                                = lower(milestone)})
    IN IF found.kind = "none" THEN Raise("KeyError") ELSE found

\* ISOTracker.default_milestone(), lines 82-110: the target's section is
\* asked first, then [general]; a missing section or option is skipped
default_milestone ==
    LET specific == IF Truthy(target)
                    THEN Get(Get(config, target, EmptyDict),
                             "default_milestone", None)
                    ELSE None
        milestone_name == IF Truthy(specific) THEN specific
                          ELSE Get(Get(config, "general", EmptyDict),
                                   "default_milestone", None)
    IN IF ~Truthy(milestone_name) THEN Raise("KeyError")
       ELSE get_milestone_by_name(milestone_name)

\* what post_build did: the remote calls, what it returned or raised, the
\* records of the server afterwards and the lines it printed
Post(calls, r, store, printed) ==
    [rpc |-> calls, result |-> r, tracker |-> store, printed |-> printed]

\* lines 166-169: add_build raised, returned a build or returned None
Posted(added) ==
    IF Raised(added.result)
    THEN Post(added.rpc, added.result, added.tracker, <<>>)
    ELSE Post(added.rpc, ReturnNone, added.tracker,
              <<IF added.result.kind # "none"
                THEN "Build successfully added to the tracker"
                ELSE "Failed to add build to the tracker">>)

\* lines 161-169, once the milestone was looked up
PostTo(product, version, notify, ok, found) ==
    IF Raised(found) THEN Post(<<>>, found, tracker, <<>>)
    ELSE Posted(add_build(found.value, [t |-> "Product", v |-> product],
                          version, notify, ok))

\* lines 153-169, once the product was looked up
PostOf(version, milestone, notify, ok, found) ==
    IF Raised(found) THEN Post(<<>>, found, tracker, <<>>)
    ELSE PostTo(found.value, version, notify, ok,
                IF milestone.t = "none"
                   \/ (milestone.t = "str" /\ milestone.v = "")
                THEN default_milestone
                ELSE IF milestone.t = "Milestone"
                THEN Return("entry", milestone.v)
                ELSE get_milestone_by_name(milestone.v))

\* ISOTracker.post_build(product, version, milestone, note, notify),
\* lines 147-169; a product is [t |-> "Product", v |-> record] or
\* [t |-> "str", v |-> name], a milestone [t |-> "Milestone", v |-> record],
\* [t |-> "str", v |-> name] or [t |-> "none"]
post_build(product, version, milestone, notify, ok) ==
    PostOf(version, milestone, notify, ok,
           IF product.t = "Product" THEN Return("entry", product.v)
           ELSE get_product_by_name(product.v))

GetProductByName ==
    \E product \in {"Ubuntu Desktop", "ubuntu desktop", "UBUNTU SERVER",
                    "Kubuntu"} :
        /\ pc = "ready"
        /\ pc' = "returned"
        /\ call' = [op |-> "get_product_by_name", product |-> product]
        /\ result' = get_product_by_name(product)
        /\ Reads

GetMilestoneByName ==
    \E milestone \in {"Focal Daily", "focal daily", "FOCAL DAILY",
                      "Groovy Daily"} :
        /\ pc = "ready"
        /\ pc' = "returned"
        /\ call' = [op |-> "get_milestone_by_name", milestone |-> milestone]
        /\ result' = get_milestone_by_name(milestone)
        /\ Reads

MaxPrinted == 2

\* the products a caller posts a build of
PostProducts ==
    {[t |-> "str", v |-> name] : name \in {"Ubuntu Desktop", "Kubuntu"}}
        \cup {[t |-> "Product", v |-> tracker_products[i]] :
                i \in DOMAIN tracker_products}

\* the milestones a caller posts a build to
PostMilestones ==
    {[t |-> "none"], [t |-> "str", v |-> "Focal Daily"]}
        \cup {[t |-> "Milestone", v |-> tracker_milestones[i]] :
                i \in DOMAIN tracker_milestones}

PostBuild ==
    /\ pc = "ready"
    /\ Len(stdout) < MaxPrinted
    /\ pc' = "returned"
    /\ \E product \in PostProducts, milestone \in PostMilestones,
          notify \in {[t |-> "bool", v |-> TRUE], [t |-> "str", v |-> "yes"]},
          ok \in BOOLEAN :
        /\ call' = [op |-> "post_build", product |-> product, version |-> "v2",
                    milestone |-> milestone, notify |-> notify, ok |-> ok,
                    before |-> tracker]
        /\ \E done \in {post_build(product, "v2", milestone, notify, ok)} :
            /\ result' = done.result
            /\ rpc' = done.rpc
            /\ tracker' = done.tracker
            /\ stdout' = stdout \o done.printed
    /\ UNCHANGED <<yaml_data, ks_vars, snap_data, loader_vars, lp_vars,
                   access, held, configfile, config, target,
                   tracker_products, tracker_milestones>>

NextIso ==
    \/ ISOTracker__init__
    \/ GetProductByName
    \/ GetMilestoneByName
    \/ PostBuild
    \/ NextCall

MaxProducts == 3

\* what ~/.isotracker.conf may hold besides url, username and password
ConfigFiles ==
    {"general" :> EmptyDict,
     "general" :> ("default_milestone" :> "Focal Daily"),
     ("general" :> ("default_milestone" :> "Focal Daily"))
        @@ ("localized" :> ("default_milestone" :> "Groovy Daily"))}

\* the products and milestones a tracker may list
IsoProducts ==
    {[id |-> 5, status |-> 0, title |-> "Ubuntu Desktop"],
     [id |-> 6, status |-> 1, title |-> "Ubuntu Server"],
     [id |-> 7, status |-> 0, title |-> "UBUNTU DESKTOP"]}

IsoMilestones ==
    {<<>>,
     <<[id |-> 1, status |-> 0, title |-> "Focal Daily"],
       [id |-> 2, status |-> 2, title |-> "Bionic Final"]>>,
     <<[id |-> 2, status |-> 2, title |-> "Bionic Final"],
       [id |-> 3, status |-> 1, title |-> "FOCAL DAILY"],
       [id |-> 1, status |-> 0, title |-> "Focal Daily"]>>}

IsoTrackers ==
    {[access |-> a, supersedes |-> FALSE, milestones |-> m, products |-> p,
      builds |-> <<>>, results |-> <<>>, rebuild |-> [id |-> 3, status |-> 0],
      nextid |-> 8] :
        a \in {"admin", None}, m \in IsoMilestones,
        p \in SeqsUpTo(IsoProducts, MaxProducts)}

InitIso ==
    /\ tracker \in IsoTrackers
    /\ configfile \in BOOLEAN
    /\ config \in (IF configfile THEN ConfigFiles ELSE {EmptyDict})
    /\ target = None
    /\ stdout = <<>>
    /\ tracker_products = None
    /\ tracker_milestones = None
    /\ access = None
    /\ rpc = <<>>
    /\ held = EmptyDict
    /\ pc = "new"
    /\ call = [op |-> "none"]
    /\ result = ReturnNone
    /\ yaml_data = <<>>
    /\ _data = <<>>
    /\ _defaults_series = EmptyDict
    /\ _development_series = None
    /\ _codename_to_series = EmptyDict
    /\ snap_data = EmptyDict
    /\ _data_txt = EmptyDict
    /\ fetched = EmptyDict
    /\ bug = EmptyDict
    /\ callbacks = <<>>

SpecIso == InitIso /\ [][NextIso]_vars

\* the spellings of one name
Spellings ==
    {{"Ubuntu Desktop", "ubuntu desktop", "UBUNTU DESKTOP"},
     {"Ubuntu Server", "UBUNTU SERVER"},
     {"Focal Daily", "focal daily", "FOCAL DAILY"}}

\* the two titles are equal when case is ignored
SameName(a, b) == a = b \/ \E name \in Spellings : a \in name /\ b \in name

\* the outcome of a lookup by name in the records kept by the facade: the
\* first record of that name, a KeyError without one
Looked(records, name) ==
    LET hits == {i \in DOMAIN records : SameName(records[i].title, name)}
    IN IF hits = {} THEN result = Raise("KeyError")
       ELSE \E i \in hits :
                /\ \A j \in hits : i <= j
                /\ result = Return("entry", records[i])

\* C22: constructing ISOTracker without a configuration file fails with
\* NoConfigurationError before any remote call; get_product_by_name and
\* get_milestone_by_name return the first record whose title equals the
\* name when case is ignored, and fail with a KeyError without one.
C22_IsoTrackerErrors ==
    /\ call.op = "ISOTracker" /\ ~configfile =>
            /\ result = Raise("NoConfigurationError")
            /\ rpc = <<>>
            /\ access = None
            /\ pc = "failed"
    /\ call.op = "get_product_by_name" =>
            Looked(tracker_products, call.product)
    /\ call.op = "get_milestone_by_name" =>
            Looked(tracker_milestones, call.milestone)

\* the second of three products was found under another spelling, though
\* the third has that name too
C22_Witness ==
    /\ call.op = "get_product_by_name"
    /\ call.product = "ubuntu desktop"
    /\ Len(tracker_products) = 3
    /\ tracker_products[1].title = "Ubuntu Server"
    /\ tracker_products[3].title = "Ubuntu Desktop"
    /\ result = Return("entry", tracker_products[2])
    /\ tracker_products[2].title = "UBUNTU DESKTOP"

\* no configuration file: the construction failed
C22_WitnessNoConfiguration ==
    /\ call.op = "ISOTracker"
    /\ result = Raise("NoConfigurationError")

\* a milestone that is not listed
C22_WitnessMissing ==
    /\ call.op = "get_milestone_by_name"
    /\ Len(tracker_milestones) > 0
    /\ result = Raise("KeyError")

(***************************************************************************)
(* C23, C24, C30: the references a source follows                          *)
(***************************************************************************)
\* no reference
NoRef == <<>>

\* the reference names a source the series it names does not have
NamesNoSource(ref) ==
    ref[1] \in YamlSeriesKeys /\ ref[2] \notin YamlSourceKeys(ref[1])

\* the reference Source.versions follows from a source of the document:
\* none when the source has explicit versions; else its derived-from; else,
\* without derived-from or when derived-from names a source its series does
\* not have, its copy-forward when that is a reference; else none
Followed(ref) ==
    LET own == YamlSourceBody(ref[1], ref[2])
    IN IF "versions" \in DOMAIN own THEN NoRef
       ELSE IF /\ "derived-from" \in DOMAIN own
               /\ ~NamesNoSource(own["derived-from"])
       THEN own["derived-from"]
       ELSE IF "copy-forward" \in DOMAIN own /\ own["copy-forward"].t = "ref"
       THEN own["copy-forward"].v
       ELSE NoRef

RECURSIVE Reached(_, _)
\* where n references followed from a source of the document lead: to a
\* source, or nowhere when the chain has ended before
Reached(ref, n) ==
    IF ref = NoRef THEN NoRef
    ELSE IF ~NamesSource(ref) THEN NoRef
    ELSE IF n = 0 THEN ref
    ELSE Reached(Followed(ref), n - 1)

\* the sources of the document
YamlSourceRefs ==
    {Ref(series_key, source_key) :
        series_key \in YamlSeriesKeys, source_key \in {"linux", "linux-hwe"}}
        \cap {ref \in {"16.04", "18.04", "14.04"} \X {"linux", "linux-hwe"} :
                NamesSource(ref)}

\* the references followed from the source run into a cycle: as many steps
\* as the document has sources still lead to a source
Cyclic(ref) == Reached(ref, Cardinality(YamlSourceRefs)) # NoRef

\* C23 as stated: on a cycle of references without explicit versions the
\* resolution of versions does not terminate, so that no read of versions
\* on such a source ever comes back to its caller.
C23_CycleNeverReturns ==
    ~(/\ pc = "returned"
      /\ call.op = "versions"
      /\ Cyclic(Ref(call.series, call.source)))

\* C23, amended: a read of versions ends with RecursionError exactly when
\* the references followed from the source form a cycle in which no source
\* has explicit versions; in every other case it returns or raises another
\* error after finitely many steps.
C23_CycleRaisesRecursionError ==
    pc = "returned" /\ call.op = "versions" =>
        (result = Raise("RecursionError")
            <=> Cyclic(Ref(call.series, call.source)))

\* a cycle of two sources: linux derives from linux-hwe and linux-hwe from
\* linux
C23_Witness ==
    /\ pc = "returned"
    /\ call.op = "versions"
    /\ call.series = "16.04" /\ call.source = "linux"
    /\ Followed(Ref("16.04", "linux")) = Ref("16.04", "linux-hwe")
    /\ Followed(Ref("16.04", "linux-hwe")) = Ref("16.04", "linux")
    /\ result = Raise("RecursionError")

\* a chain of two references that ends at explicit versions
C23_WitnessChain ==
    /\ pc = "returned"
    /\ call.op = "versions"
    /\ call.series = "16.04" /\ call.source = "linux"
    /\ Followed(Ref("16.04", "linux")) = Ref("16.04", "linux-hwe")
    /\ Followed(Ref("16.04", "linux-hwe")) = Ref("18.04", "linux")
    /\ result = Return("list", VersionsList("18.04", "linux"))

\* a reference of the source names a series or a source the document does
\* not have
Dangling(series_key, source_key) == ~WellFormed(series_key, source_key)

\* C24: reading derived_from, copy_forward or versions of a source whose
\* derived-from or copy-forward reference names a series or a source that
\* does not exist fails with an invalid-argument error.
C24_DanglingReferenceInvalidArgument ==
    /\ pc = "returned"
    /\ call.op \in {"derived_from", "copy_forward", "versions"}
    /\ Dangling(call.series, call.source)
    => result = Raise("ValueError")

\* every reference of the document names a source of the document, and
\* no chain of references runs into a cycle
SoundReferences ==
    /\ \A ref \in YamlSourceRefs : WellFormed(ref[1], ref[2])
    /\ \A ref \in YamlSourceRefs : ~Cyclic(ref)

\* C30: in a document whose references all name existing sources and form
\* no cycle, versions, version and copy_forward return a value and never
\* raise, and the versions of a source with `copy-forward: true`, no
\* derived-from and no explicit versions are absent.
C30_SoundReferencesNeverRaise ==
    /\ pc = "returned"
    /\ call.op \in {"versions", "version", "copy_forward"}
    /\ SoundReferences
    => /\ ~Raised(result)
       /\ LET own == YamlSourceBody(call.series, call.source)
          IN /\ call.op = "versions"
             /\ "copy-forward" \in DOMAIN own
             /\ own["copy-forward"] = [t |-> "bool", v |-> TRUE]
             /\ "derived-from" \notin DOMAIN own
             /\ "versions" \notin DOMAIN own
             => result = ReturnNone

\* the enumerated Series views whose development flag is true
DevelopmentViews ==
    {i \in DOMAIN KernelSeries_series :
        Series_development(KernelSeries_series[i]) = TRUE}

\* C25: lookup_series(development=True) returns a Series view whose
\* development flag is true whenever at least one enumerated Series view
\* has the flag, its own or inherited from defaults, and returns absent only
\* when none has.
C25_DevelopmentPointer ==
    /\ pc = "returned"
    /\ call.op = "lookup_series"
    /\ call.series = None /\ call.codename = None /\ call.development
    => /\ DevelopmentViews # {} =>
            /\ result.kind = "Series"
            /\ Series_development(result.value) = TRUE
       /\ result = ReturnNone => DevelopmentViews = {}

(***************************************************************************)
(* C26, C28: remote failures and deleted results                           *)
(***************************************************************************)
\* the last operation made its mutating call and the server refused it
RemoteFailed ==
    /\ pc = "returned"
    /\ call.op \in GatedOperations
    /\ CalledMutating
    /\ ~call.ok

\* C26: when the remote side signals failure of builds.add, results.add,
\* results.update, results.delete or rebuilds.update_status, the client
\* operation raises to its caller instead of returning, and the records are
\* left as they were: a failed Result.delete leaves the result's status
\* unchanged and the result not marked deleted.
C26_RemoteFailureRaises ==
    RemoteFailed =>
        /\ Raised(result)
        /\ tracker = call.before
        /\ call.op \in {"Result.delete", "Result.save"} => held = call.was

\* the operation was called on a result object that delete() had removed
OnDeleted ==
    /\ pc = "returned"
    /\ call.op \in {"Result.delete", "Result.save"}
    /\ call.was.deleted

\* C28: deletion of a result is one-way.  A result object is marked deleted
\* only by a delete() that succeeded, it stays marked and its status is 1;
\* every later delete() or save() on it raises without any remote call.  On
\* an object not marked deleted, also after a failed delete, save() and
\* delete() make their remote call when the access level allows.
C28_DeleteOneWay ==
    /\ held # EmptyDict /\ held.deleted => held.status = 1
    /\ OnDeleted =>
            /\ Raised(result)
            /\ rpc = <<>>
            /\ held = call.was
            /\ tracker = call.before
    /\ (pc = "returned" /\ call.op \in {"Result.delete", "Result.save"}
            /\ ~call.was.deleted) =>
            /\ access \in {"user", "admin", None} =>
                    rpc = <<IF call.op = "Result.delete"
                            THEN "results.delete" ELSE "results.update">>
            /\ held.deleted <=>
                    (call.op = "Result.delete" /\ ~Raised(result))
            /\ Raised(result) => held = call.was

\* a save on a result that an earlier delete removed was refused before any
\* remote call, though the access level allows saving
C28_Witness ==
    /\ OnDeleted
    /\ call.op = "Result.save"
    /\ access = "user"
    /\ result = Raise("IndexError")
    /\ rpc = <<>>

\* a delete the server refused left the object as it was
C28_WitnessFailedDelete ==
    /\ pc = "returned"
    /\ call.op = "Result.delete"
    /\ ~call.ok
    /\ rpc = <<"results.delete">>
    /\ ~held.deleted
    /\ held.status = 0

\* process_bug has just run again with the source package and release of
\* the run before it
RanAgain ==
    /\ call.op = "process_bug"
    /\ call.prev.op = "process_bug"
    /\ call.prev.sourcepkg = call.sourcepkg
    /\ call.prev.release = call.release

\* C29: a second run of process_bug with the same source package and
\* release creates no further task and leaves every task status and the
\* tags of the bug as they were after the first run.
C29_SecondRunIdempotent ==
    RanAgain =>
        /\ Len(bug.tasks) = Len(call.before.tasks)
        /\ bug.tasks = call.before.tasks
        /\ bug.tags = call.before.tags

\* the first run created the release task and changed the tags, and the
\* second run matched that task
C29_Witness ==
    /\ RanAgain
    /\ Truthy(call.sourcepkg)
    /\ Len(call.before.tasks) = Len(call.prev.before.tasks) + 1
    /\ call.before.tags # call.prev.before.tags
    /\ distroseries_match(call.before.tasks, call.sourcepkg, call.release)
    /\ bug.tasks = call.before.tasks

====
